---- MODULE Spec2Model ----
(***************************************************************************)
(* The auth session bridge (SupabaseAuthProvider) and the auth service     *)
(* (SupabaseAuthService) of the marketplace frontend, as a state machine.  *)
(*                                                                         *)
(* JavaScript runs one callback at a time: the code between two awaits is  *)
(* one atomic step.  Every async function is therefore a task that moves   *)
(* from await to await; a step is "an operation is called and runs to its  *)
(* first await" or "a backend response arrives and the task runs to its    *)
(* next await or to its exit".  The backend is an opaque collaborator: the *)
(* response to each request is chosen when it arrives.                     *)
(*                                                                         *)
(* An optional value (T | null | undefined) is a sequence: <<>> when it is *)
(* absent and <<v>> when it is v.  An absent string field is Undef.        *)
(***************************************************************************)
EXTENDS Naturals, Sequences, FiniteSets, Bags, TLC

\* Number of user operations and push-event handlers that may be suspended
\* at an await at the same time (the bootstrap is counted apart).
MaxPending == 1

Undef == "undefined"
NoVal == <<>>
Some(v) == <<v>>
IsSome(o) == o # <<>>
Val(o) == o[1]

\* JavaScript truthiness of a string field, and the || operator on them.
Truthy(s) == s \notin {Undef, ""}
OrElse(a, b) == IF Truthy(a) THEN a ELSE b

(***************************************************************************)
(* Backend data the model draws responses from.                            *)
(***************************************************************************)
\* Raw rows of the 'users' table (with the joined vendor), as the select
\* returns them: the same account before and after its row was edited (an
\* administrator changed the role, the owner the names and the phone).
DbRow(id, email, fn, ln, cfn, cln, role, phone, vendor) ==
    [id |-> id, email |-> email, first_name |-> fn, last_name |-> ln,
     firstName |-> cfn, lastName |-> cln, role |-> role, status |-> "ACTIVE",
     avatar |-> Undef, phone |-> phone, vendor |-> vendor]

Vendor1 == [id |-> "v1", shopname |-> "Shop", status |-> "APPROVED", city |-> "X"]

Row1 == DbRow("u1", "a@b.com", "Ana", "Lee", Undef, Undef, "VENDOR", Undef, Some(Vendor1))
Row2 == DbRow("u1", "a@b.com", Undef, Undef, "Ann", "Li", "ADMIN", "555", NoVal)
Rows == {Row1, Row2}

\* Users of the auth provider (supabase.auth), each with its session.
AuthUser(id, email) == [id |-> id, email |-> email, role |-> "authenticated"]
AuthUsers == { AuthUser("u1", "a@b.com") }
Session(au) == [access_token |-> "tok", user |-> au]

\* What a request to the backend can answer: { data, error }.
Ok(d) == [data |-> d, error |-> NoVal]
Err(m) == [data |-> NoVal, error |-> Some([message |-> m])]
IsErr(r) == IsSome(r.error)

(***************************************************************************)
(* The result envelope (lib/supabase: handleSupabaseSuccess / -Error).     *)
(***************************************************************************)
handleSupabaseSuccess(data) == [success |-> TRUE, data |-> data]
handleSupabaseError(error) == [success |-> FALSE, error |-> error.message]

(***************************************************************************)
(* The profile mapper.                                                     *)
(***************************************************************************)
mapDatabaseUserToUser(dbUser) ==
    [id |-> dbUser.id,
     email |-> dbUser.email,
     firstName |-> OrElse(dbUser.first_name, dbUser.firstName),
     lastName |-> OrElse(dbUser.last_name, dbUser.lastName),
     role |-> dbUser.role,
     status |-> dbUser.status,
     avatar |-> dbUser.avatar,
     phone |-> dbUser.phone,
     vendor |-> IF IsSome(dbUser.vendor)
                THEN Some([id |-> Val(dbUser.vendor).id,
                           shopname |-> Val(dbUser.vendor).shopname,
                           status |-> Val(dbUser.vendor).status])
                ELSE NoVal,
     \* the template string `${first} ${last}`
     name |-> <<OrElse(dbUser.first_name, dbUser.firstName), " ",
                OrElse(dbUser.last_name, dbUser.lastName)>>]

(***************************************************************************)
(* Backend requests and the responses each can get.  A task suspended at   *)
(* an await is [op, at, ctx, role, stale]: the bridge operation, the       *)
(* request it awaits, what the service function keeps across its awaits,   *)
(* user?.role as the operation's closure saw it, and whether a sign-out    *)
(* was applied locally since the task started (an observation only).       *)
(***************************************************************************)
Emails == {"a@b.com", "e@f.com"}
Passwords == {"pw"}

\* The row insert(values).select().single() hands back: the values written,
\* the columns left out empty, no vendor joined to a new account.
InsertedRow(values) ==
    [id |-> values.id, email |-> values.email,
     first_name |-> values.first_name, last_name |-> values.last_name,
     firstName |-> Undef, lastName |-> Undef,
     role |-> values.role, status |-> values.status,
     avatar |-> IF "avatar" \in DOMAIN values THEN values.avatar ELSE Undef,
     phone |-> IF "phone" \in DOMAIN values THEN values.phone ELSE Undef,
     vendor |-> NoVal]

Responses(at, ctx) ==
    CASE at = "auth.getSession" ->
           {Err("session error"), Ok([session |-> NoVal])}
             \cup {Ok([session |-> Some(Session(au))]) : au \in AuthUsers}
      [] at = "auth.getUser" ->
           {Err("jwt expired"), Ok([user |-> NoVal])}
             \cup {Ok([user |-> Some(au)]) : au \in AuthUsers}
      [] at = "users.select" ->
           {Err("db error"), Ok(NoVal)}
             \cup {Ok(Some(r)) : r \in {x \in Rows : x.id = ctx.id}}
      [] at = "auth.signInWithPassword" ->
           {Err("Invalid login credentials"), Ok([user |-> NoVal, session |-> NoVal])}
             \cup {Ok([user |-> Some(au), session |-> Some(Session(au))]) : au \in AuthUsers}
      [] at = "auth.signUp" ->
           {Err("User already registered")}
             \cup {Ok([user |-> Some(au), session |-> Some(Session(au))]) : au \in AuthUsers}
             \cup {Ok([user |-> Some(au), session |-> NoVal]) : au \in AuthUsers}
      [] at = "auth.signOut" -> {Err("network error"), Ok(NoVal)}
      [] at = "users.update" ->
           {Err("JSON object requested, multiple (or no) rows returned")}
             \cup {Ok(Some(r)) : r \in {x \in Rows : x.id = ctx.id}}
      [] at = "auth.signInWithOAuth" ->
           {Err("provider is not enabled"), Ok(Some([provider |-> "google"]))}
      [] at = "auth.resetPasswordForEmail" -> {Err("rate limit exceeded"), Ok(NoVal)}
      [] at = "users.insert" ->
           {Err("duplicate key value violates unique constraint"),
            Ok(Some(InsertedRow(ctx.values)))}
      [] at = "auth.updateUser" ->
           {Err("New password should be different from the old password")}
             \cup {Ok([user |-> Some(au)]) : au \in AuthUsers}

\* A service function, resumed with a response, either returns its envelope
\* or issues its next request.
Done(env) == [done |-> TRUE, env |-> env]
Await(at, ctx) == [done |-> FALSE, at |-> at, ctx |-> ctx]
NoCtx == [id |-> Undef, session |-> NoVal]

(***************************************************************************)
(* SupabaseAuthService: each method as the step it takes when the request  *)
(* it awaits at `at` is answered by `resp`.                                *)
(***************************************************************************)
signUp(at, ctx, resp) ==
    IF IsErr(resp) THEN Done(handleSupabaseError(Val(resp.error)))
    ELSE Done(handleSupabaseSuccess(Some(resp.data)))

\* signIn reading the row with .single(): the missing row comes back as the
\* protocol's error.
signIn_Single(at, ctx, resp) ==
    IF at = "auth.signInWithPassword"
    THEN IF IsErr(resp) THEN Done(handleSupabaseError(Val(resp.error)))
         ELSE IF ~IsSome(resp.data.user) \/ ~IsSome(resp.data.session)
              THEN Done(handleSupabaseError([message |-> "Failed to sign in"]))
              ELSE Await("users.select",
                         [id |-> Val(resp.data.user).id, session |-> resp.data.session])
    ELSE IF IsErr(resp) THEN Done(handleSupabaseError(Val(resp.error)))
         ELSE IF ~IsSome(resp.data)
              THEN Done(handleSupabaseError(
                          [message |-> "JSON object requested, multiple (or no) rows returned"]))
              ELSE Done(handleSupabaseSuccess(
                          Some([user |-> mapDatabaseUserToUser(Val(resp.data)),
                                session |-> Val(ctx.session)])))

signIn(at, ctx, resp) ==
    IF at = "auth.signInWithPassword"
    THEN IF IsErr(resp) THEN Done(handleSupabaseError(Val(resp.error)))
         ELSE IF ~IsSome(resp.data.user) \/ ~IsSome(resp.data.session)
              THEN Done(handleSupabaseError([message |-> "Failed to sign in"]))
              ELSE Await("users.select",
                         [id |-> Val(resp.data.user).id, session |-> resp.data.session])
    ELSE IF IsErr(resp) THEN Done(handleSupabaseError(Val(resp.error)))
         ELSE IF ~IsSome(resp.data)
              THEN Done(handleSupabaseError([message |-> "User profile not found"]))
              ELSE Done(handleSupabaseSuccess(
                          Some([user |-> mapDatabaseUserToUser(Val(resp.data)),
                                session |-> Val(ctx.session)])))

\* signOut without `if (error) throw error`.
signOut_IgnoresError(at, ctx, resp) == Done(handleSupabaseSuccess(NoVal))

signOut(at, ctx, resp) ==
    IF IsErr(resp) THEN Done(handleSupabaseError(Val(resp.error)))
    ELSE Done(handleSupabaseSuccess(NoVal))

getCurrentUser(at, ctx, resp) ==
    IF at = "auth.getUser"
    THEN IF IsErr(resp) THEN Done(handleSupabaseError(Val(resp.error)))
         ELSE IF ~IsSome(resp.data.user) THEN Done(handleSupabaseSuccess(NoVal))
              ELSE Await("users.select",
                         [id |-> Val(resp.data.user).id, session |-> NoVal])
    ELSE IF IsErr(resp) THEN Done(handleSupabaseError(Val(resp.error)))
         ELSE IF ~IsSome(resp.data) THEN Done(handleSupabaseSuccess(NoVal))
              ELSE Done(handleSupabaseSuccess(
                          Some(mapDatabaseUserToUser(Val(resp.data)))))

getCurrentSession(at, ctx, resp) ==
    IF IsErr(resp) THEN Done(handleSupabaseError(Val(resp.error)))
    ELSE Done(handleSupabaseSuccess(resp.data.session))

\* updateProfile returning the raw row instead of the mapped user.
Service_updateProfile_Unmapped(at, ctx, resp) ==
    IF IsErr(resp) THEN Done(handleSupabaseError(Val(resp.error)))
    ELSE Done(handleSupabaseSuccess(resp.data))

Service_updateProfile(at, ctx, resp) ==
    IF IsErr(resp) THEN Done(handleSupabaseError(Val(resp.error)))
    ELSE Done(handleSupabaseSuccess(Some(mapDatabaseUserToUser(Val(resp.data)))))

\* signInWithGoogle without `if (error) throw error`.
signInWithGoogle_IgnoresError(at, ctx, resp) ==
    Done(handleSupabaseSuccess(resp.data))

signInWithGoogle(at, ctx, resp) ==
    IF IsErr(resp) THEN Done(handleSupabaseError(Val(resp.error)))
    ELSE Done(handleSupabaseSuccess(resp.data))

Service_resetPassword(at, ctx, resp) ==
    IF IsErr(resp) THEN Done(handleSupabaseError(Val(resp.error)))
    ELSE Done(handleSupabaseSuccess(NoVal))

\* A service function that lets an error escape to its caller.
Throw(error) == [done |-> TRUE, threw |-> error]

\* signUpWithEmail: the backend's data as it is, or the backend's error
\* thrown (the catch rethrows).
signUpWithEmail(at, ctx, resp) ==
    IF IsErr(resp) THEN Throw(Val(resp.error))
    ELSE Done(resp.data)

\* createUserProfile whose catch rethrows, as signUpWithEmail's does.
createUserProfile_Rethrows(at, ctx, resp) ==
    IF IsErr(resp) THEN Throw(Val(resp.error))
    ELSE Done(handleSupabaseSuccess(Some(mapDatabaseUserToUser(Val(resp.data)))))

\* The row createUserProfile inserts.
ProfileInsert(userId, userData) ==
    [id |-> userId, email |-> userData.email,
     first_name |-> userData.firstName, last_name |-> userData.lastName,
     phone |-> userData.phone, role |-> OrElse(userData.role, "CUSTOMER"),
     status |-> "ACTIVE", password |-> ""]

createUserProfile(at, ctx, resp) ==
    IF IsErr(resp) THEN Done(handleSupabaseError(Val(resp.error)))
    ELSE Done(handleSupabaseSuccess(Some(mapDatabaseUserToUser(Val(resp.data)))))

\* session.user.user_metadata?.full_name?.split(' '), for full names of at
\* most two words: the words, none when the session carries no full name.
FullNameWords(authUser) ==
    IF "user_metadata" \in DOMAIN authUser THEN authUser.user_metadata.full_name ELSE <<>>
\* session.user.user_metadata?.avatar_url
AvatarUrl(authUser) ==
    IF "user_metadata" \in DOMAIN authUser THEN authUser.user_metadata.avatar_url ELSE Undef

\* The row handleOAuthCallback inserts for a session user without one.
OAuthInsert(authUser) ==
    LET words == FullNameWords(authUser)
    IN  [id |-> authUser.id,
         email |-> OrElse(authUser.email, ""),
         first_name |-> OrElse(IF Len(words) >= 1 THEN words[1] ELSE Undef, "User"),
         last_name |-> OrElse(IF Len(words) >= 2 THEN words[2] ELSE "", ""),
         role |-> "CUSTOMER",
         status |-> "ACTIVE",
         password |-> "",
         avatar |-> OrElse(AvatarUrl(authUser), Undef)]

\* handleOAuthCallback that reports the missing row instead of creating it,
\* as signIn does.
handleOAuthCallback_NoInsert(at, ctx, resp) ==
    IF IsErr(resp) THEN Done(handleSupabaseError(Val(resp.error)))
    ELSE CASE at = "auth.getSession" ->
                IF IsSome(resp.data.session)
                THEN Await("users.select",
                           [id |-> Val(resp.data.session).user.id,
                            session |-> resp.data.session])
                ELSE Done(handleSupabaseSuccess(NoVal))
           [] at = "users.select" ->
                IF ~IsSome(resp.data)
                THEN Done(handleSupabaseError([message |-> "User profile not found"]))
                ELSE Done(handleSupabaseSuccess(
                            Some([user |-> mapDatabaseUserToUser(Val(resp.data)),
                                  session |-> Val(ctx.session)])))
           [] at = "users.insert" ->
                Done(handleSupabaseSuccess(
                       Some([user |-> mapDatabaseUserToUser(Val(resp.data)),
                             session |-> Val(ctx.session)])))

handleOAuthCallback(at, ctx, resp) ==
    IF IsErr(resp) THEN Done(handleSupabaseError(Val(resp.error)))
    ELSE CASE at = "auth.getSession" ->
                IF IsSome(resp.data.session)
                THEN Await("users.select",
                           [id |-> Val(resp.data.session).user.id,
                            session |-> resp.data.session])
                ELSE Done(handleSupabaseSuccess(NoVal))
           [] at = "users.select" ->
                IF ~IsSome(resp.data)
                THEN Await("users.insert",
                           [id |-> ctx.id, session |-> ctx.session,
                            values |-> OAuthInsert(Val(ctx.session).user)])
                ELSE Done(handleSupabaseSuccess(
                            Some([user |-> mapDatabaseUserToUser(Val(resp.data)),
                                  session |-> Val(ctx.session)])))
           [] at = "users.insert" ->
                Done(handleSupabaseSuccess(
                       Some([user |-> mapDatabaseUserToUser(Val(resp.data)),
                             session |-> Val(ctx.session)])))

updatePassword(at, ctx, resp) ==
    IF IsErr(resp) THEN Done(handleSupabaseError(Val(resp.error)))
    ELSE Done(handleSupabaseSuccess(NoVal))

(***************************************************************************)
(* The session bridge: SupabaseAuthProvider.                               *)
(***************************************************************************)
VARIABLES
    user,          \* useState<User | null>: <<>> or <<u>>
    isLoading,     \* useState(true)
    phase,         \* "created", "mounted" (the effect ran), "unmounted"
    subscription,  \* "none", "active", "released"
    boot,          \* getInitialSession: [pc, ctx, stale]
    pending,       \* bag of the tasks suspended at an await
    page,          \* OAuthCallbackPage: [env, pc, status, error, role]
    last           \* what the latest step did (calls, toasts, navigation)

vars == <<user, isLoading, phase, subscription, boot, pending, page, last>>

Task(op, at, ctx, role) == [op |-> op, at |-> at, ctx |-> ctx, role |-> role, stale |-> FALSE]
Req(at, args) == [fn |-> at, args |-> args]

\* The record of one step.  outcome is "pending" while the operation stays
\* suspended, "returned" or "raised" when the step ends it.
StepRec(op, outcome, error, toasts, navs, reqs, env, stale) ==
    [op |-> op, outcome |-> outcome, error |-> error, toasts |-> toasts,
     navs |-> navs, reqs |-> reqs, env |-> env, stale |-> stale,
     input |-> NoVal, resp |-> NoVal, closure |-> Undef]
\* The step of a call, with the arguments of the call; the step of a
\* resumption, with the backend response that resumed the task.
Called(input, rec) == [rec EXCEPT !.input = Some(input)]
Answered(resp, rec) == [rec EXCEPT !.resp = Some(resp)]
\* The step of a continuation that navigates, with user?.role as the
\* operation's closure holds it (the user installed when it was called).
Saw(role, rec) == [rec EXCEPT !.closure = role]

\* A setter that merges the new value into the old one, keeping the old
\* field where the new one is absent.
setUser_Merge(prev, next) ==
    IF ~IsSome(prev) \/ ~IsSome(next) THEN next
    ELSE LET old == Val(prev)
             new == Val(next)
             Absent(f) == IF f = "vendor" THEN new[f] = NoVal
                          ELSE IF f = "name" THEN FALSE
                          ELSE new[f] = Undef
         IN  Some([f \in DOMAIN new |->
                     IF f \in DOMAIN old /\ Absent(f) THEN old[f] ELSE new[f]])

\* The useState setter: the new value replaces the old one wholesale.
setUser(prev, next) == next
Toast(kind, msg) == [kind |-> kind, msg |-> msg]

\* user?.role
RoleOf(u) == IF IsSome(u) THEN Val(u).role ELSE Undef

\* A sign-out applied locally: every task in flight started before it.
MarkStale(bag) == BagOfAll(LAMBDA t : [t EXCEPT !.stale = TRUE], bag)

CanStart == phase = "mounted" /\ BagCardinality(pending) < MaxPending

\* Resuming task t: it leaves the bag, and comes back if it awaits again.
Resumed(t, s) ==
    IF s.done THEN pending (-) SetToBag({t})
    ELSE (pending (-) SetToBag({t})) (+) SetToBag({[t EXCEPT !.at = s.at, !.ctx = s.ctx]})

\* result.error when the envelope has the key, else the operation's message
ErrorMessage(env, fallback) == IF "error" \in DOMAIN env THEN env.error ELSE fallback

\* The test without `&& result.data`.
HasData_SuccessOnly(env) == env.success /\ "data" \in DOMAIN env

\* userResult.success && 'data' in userResult && userResult.data
HasData(env) == env.success /\ "data" \in DOMAIN env /\ IsSome(env.data)

\* user?.role || userRole: the closure's user consulted first.
getDashboardPath_ClosureFirst(userRole, closureRole) ==
    LET role == OrElse(closureRole, userRole)
    IN  IF ~Truthy(role) THEN "/"
        ELSE CASE role = "ADMIN" -> "/admin"
               [] role = "MANAGER" -> "/manager"
               [] role = "VENDOR" -> "/vendor"
               [] OTHER -> "/customer"

getDashboardPath(userRole, closureRole) ==
    LET role == OrElse(userRole, closureRole)
    IN  IF ~Truthy(role) THEN "/"
        ELSE CASE role = "ADMIN" -> "/admin"
               [] role = "MANAGER" -> "/manager"
               [] role = "VENDOR" -> "/vendor"
               [] OTHER -> "/customer"

\* import.meta.env as the build set it: VITE_SUPABASE_URL, as the pieces the
\* placeholder test reads, and VITE_SUPABASE_ANON_KEY.
Url(project) == Some(<<"https://", project, ".supabase.co">>)
ImportMetaEnv(url, key) == [VITE_SUPABASE_URL |-> url, VITE_SUPABASE_ANON_KEY |-> key]
Configured == ImportMetaEnv(Url("abcdefgh"), "anon-key")

\* OAuthCallbackPage before its effect ran: useState('Processing OAuth
\* callback...'), useState(null).
PageInit(env) ==
    [env |-> env, pc |-> "idle", status |-> "Processing OAuth callback...",
     error |-> NoVal, role |-> Undef]

\* The provider after construction, with everything outside it given.
BridgeInit ==
    /\ user = NoVal
    /\ isLoading = TRUE
    /\ phase = "created"
    /\ subscription = "none"
    /\ boot = [pc |-> "idle", ctx |-> NoCtx, stale |-> FALSE]
    /\ pending = EmptyBag
    /\ last = StepRec("init", "returned", Undef, <<>>, <<>>, <<>>, NoVal, FALSE)

Init ==
    /\ BridgeInit
    /\ page = PageInit(Configured)

\* useEffect(..., []): getInitialSession() runs to its first await, then the
\* listener is registered.
Mount ==
    /\ phase = "created"
    /\ phase' = "mounted"
    /\ boot' = [boot EXCEPT !.pc = "auth.getSession"]
    /\ subscription' = "active"
    /\ last' = Called(<<>>,
            StepRec("mount", "pending", Undef, <<>>, <<>>,
                           <<Req("auth.getSession", NoCtx)>>, NoVal, FALSE))
    /\ UNCHANGED <<user, isLoading, pending, page>>

\* A cleanup that does not unsubscribe.
Unmount_NoUnsubscribe ==
    /\ phase = "mounted"
    /\ phase' = "unmounted"
    /\ boot' = IF boot.pc = "done" THEN boot ELSE [pc |-> "dropped", ctx |-> NoCtx, stale |-> FALSE]
    /\ pending' = EmptyBag
    /\ last' = StepRec("unmount", "returned", Undef, <<>>, <<>>, <<>>, NoVal, FALSE)
    /\ UNCHANGED <<user, isLoading, page, subscription>>

\* The effect's cleanup, at teardown of the process: subscription?.unsubscribe().
\* Nothing runs afterwards, so the tasks still suspended are dropped with the
\* process.
Unmount ==
    /\ phase = "mounted"
    /\ phase' = "unmounted"
    /\ subscription' = IF subscription = "active" THEN "released" ELSE subscription
    /\ boot' = IF boot.pc = "done" THEN boot ELSE [pc |-> "dropped", ctx |-> NoCtx, stale |-> FALSE]
    /\ pending' = EmptyBag
    /\ last' = StepRec("unmount", "returned", Undef, <<>>, <<>>, <<>>, NoVal, FALSE)
    /\ UNCHANGED <<user, isLoading, page>>

\* getInitialSession resumed at `await supabaseAuth.getCurrentSession()`.
getInitialSession_session ==
    /\ phase = "mounted"
    /\ boot.pc = "auth.getSession"
    /\ \E resp \in Responses(boot.pc, boot.ctx) :
         LET env == getCurrentSession(boot.pc, boot.ctx, resp).env
         IN  IF HasData(env)
             THEN /\ boot' = [boot EXCEPT !.pc = "auth.getUser"]
                  /\ last' = Answered(resp,
                          StepRec("getInitialSession", "pending", Undef, <<>>, <<>>,
                                         <<Req("auth.getUser", NoCtx)>>, Some(env), boot.stale))
                  /\ UNCHANGED isLoading
             ELSE /\ boot' = [boot EXCEPT !.pc = "done"]
                  /\ isLoading' = FALSE
                  /\ last' = Answered(resp,
                          StepRec("getInitialSession", "returned", Undef, <<>>, <<>>,
                                         <<>>, Some(env), boot.stale))
    /\ UNCHANGED <<user, phase, page, subscription, pending>>

\* getInitialSession dropping the fetched user when a sign-out was applied
\* while the fetch was in flight.
getInitialSession_user_DropsStale ==
    /\ phase = "mounted"
    /\ boot.pc \in {"auth.getUser", "users.select"}
    /\ \E resp \in Responses(boot.pc, boot.ctx) :
         LET s == getCurrentUser(boot.pc, boot.ctx, resp)
         IN  IF ~s.done
             THEN /\ boot' = [boot EXCEPT !.pc = s.at, !.ctx = s.ctx]
                  /\ last' = Answered(resp,
                          StepRec("getInitialSession", "pending", Undef, <<>>, <<>>,
                                  <<Req(s.at, s.ctx)>>, NoVal, boot.stale))
                  /\ UNCHANGED <<user, isLoading>>
             ELSE /\ boot' = [boot EXCEPT !.pc = "done", !.ctx = NoCtx]
                  /\ user' = IF HasData(s.env) /\ ~boot.stale THEN s.env.data ELSE user
                  /\ isLoading' = FALSE
                  /\ last' = Answered(resp,
                          StepRec("getInitialSession", "returned", Undef, <<>>, <<>>,
                                  <<>>, Some(s.env), boot.stale))
    /\ UNCHANGED <<phase, page, subscription, pending>>

\* getInitialSession resumed inside `await supabaseAuth.getCurrentUser()`.
getInitialSession_user ==
    /\ phase = "mounted"
    /\ boot.pc \in {"auth.getUser", "users.select"}
    /\ \E resp \in Responses(boot.pc, boot.ctx) :
         LET s == getCurrentUser(boot.pc, boot.ctx, resp)
         IN  IF ~s.done
             THEN /\ boot' = [boot EXCEPT !.pc = s.at, !.ctx = s.ctx]
                  /\ last' = Answered(resp,
                          StepRec("getInitialSession", "pending", Undef, <<>>, <<>>,
                                         <<Req(s.at, s.ctx)>>, NoVal, boot.stale))
                  /\ UNCHANGED <<user, isLoading>>
             ELSE /\ boot' = [boot EXCEPT !.pc = "done", !.ctx = NoCtx]
                  /\ user' = IF HasData(s.env) THEN setUser(user, s.env.data) ELSE user
                  /\ isLoading' = FALSE
                  /\ last' = Answered(resp,
                          StepRec("getInitialSession", "returned", Undef, <<>>, <<>>,
                                         <<>>, Some(s.env), boot.stale))
    /\ UNCHANGED <<phase, page, subscription, pending>>

(***************************************************************************)
(* The onAuthStateChange callback.                                         *)
(***************************************************************************)
Events == {"SIGNED_IN", "SIGNED_OUT", "TOKEN_REFRESHED", "USER_UPDATED"}
EventSessions == {NoVal, Some(Session(AuthUser("u1", "a@b.com")))}

\* The callback without the `&& session` tests.
onAuthStateChange_IgnoresSession(event, session) ==
    /\ phase = "mounted"
    /\ subscription = "active"
    /\ IF event \in {"SIGNED_IN", "TOKEN_REFRESHED"}
       THEN /\ BagCardinality(pending) < MaxPending
            /\ pending' = pending (+) SetToBag({Task(event, "auth.getUser", NoCtx, Undef)})
            /\ last' = Called([event |-> event, session |-> session],
                    StepRec(event, "pending", Undef, <<>>, <<>>,
                            <<Req("auth.getUser", NoCtx)>>, NoVal, FALSE))
            /\ UNCHANGED <<user, isLoading, boot>>
       ELSE IF event = "SIGNED_OUT"
       THEN /\ user' = NoVal
            /\ isLoading' = FALSE
            /\ pending' = MarkStale(pending)
            /\ boot' = [boot EXCEPT !.stale = (boot.pc \notin {"idle", "done"})]
            /\ last' = Called([event |-> event, session |-> session],
                    StepRec(event, "returned", Undef, <<>>, <<>>, <<>>, NoVal, FALSE))
       ELSE /\ isLoading' = FALSE
            /\ last' = Called([event |-> event, session |-> session],
                    StepRec(event, "returned", Undef, <<>>, <<>>, <<>>, NoVal, FALSE))
            /\ UNCHANGED <<user, boot, pending>>
    /\ UNCHANGED <<phase, page, subscription>>

\* The callback invoked with (event, session), up to its await or its end.
onAuthStateChange(event, session) ==
    /\ phase = "mounted"
    /\ subscription = "active"
    /\ IF event \in {"SIGNED_IN", "TOKEN_REFRESHED"} /\ IsSome(session)
       THEN /\ BagCardinality(pending) < MaxPending
            /\ pending' = pending (+) SetToBag({Task(event, "auth.getUser", NoCtx, Undef)})
            /\ last' = Called([event |-> event, session |-> session],
                    StepRec(event, "pending", Undef, <<>>, <<>>,
                                   <<Req("auth.getUser", NoCtx)>>, NoVal, FALSE))
            /\ UNCHANGED <<user, isLoading, boot>>
       ELSE IF event = "SIGNED_OUT"
       THEN /\ user' = setUser(user, NoVal)
            /\ isLoading' = FALSE
            /\ pending' = MarkStale(pending)
            /\ boot' = [boot EXCEPT !.stale = (boot.pc \notin {"idle", "done"})]
            /\ last' = Called([event |-> event, session |-> session],
                    StepRec(event, "returned", Undef, <<>>, <<>>, <<>>, NoVal, FALSE))
       ELSE /\ isLoading' = FALSE
            /\ last' = Called([event |-> event, session |-> session],
                    StepRec(event, "returned", Undef, <<>>, <<>>, <<>>, NoVal, FALSE))
            /\ UNCHANGED <<user, boot, pending>>
    /\ UNCHANGED <<phase, page, subscription>>

PushEvent == \E event \in Events, session \in EventSessions : onAuthStateChange(event, session)

\* The callback resumed inside `await supabaseAuth.getCurrentUser()`.
\* The callback's continuation with setIsLoading(false) inside the `if` that
\* installs the user.
onAuthStateChange_user_KeepsLoading ==
    /\ phase = "mounted"
    /\ \E t \in BagToSet(pending) :
         /\ t.op \in {"SIGNED_IN", "TOKEN_REFRESHED"}
         /\ \E resp \in Responses(t.at, t.ctx) :
              LET s == getCurrentUser(t.at, t.ctx, resp)
              IN  /\ pending' = Resumed(t, s)
                  /\ IF ~s.done
                     THEN /\ last' = Answered(resp,
                             StepRec(t.op, "pending", Undef, <<>>, <<>>,
                                                 <<Req(s.at, s.ctx)>>, NoVal, t.stale))
                          /\ UNCHANGED <<user, isLoading>>
                     ELSE /\ user' = IF HasData(s.env) THEN setUser(user, s.env.data) ELSE user
                          /\ isLoading' = IF HasData(s.env) THEN FALSE ELSE isLoading
                          /\ last' = Answered(resp,
                                  StepRec(t.op, "returned", Undef, <<>>, <<>>,
                                                 <<>>, Some(s.env), t.stale))
    /\ UNCHANGED <<phase, page, subscription, boot>>

\* The callback's continuation with an else that clears the user, as
\* refreshToken has.
onAuthStateChange_user_ClearsOnFailure ==
    /\ phase = "mounted"
    /\ \E t \in BagToSet(pending) :
         /\ t.op \in {"SIGNED_IN", "TOKEN_REFRESHED"}
         /\ \E resp \in Responses(t.at, t.ctx) :
              LET s == getCurrentUser(t.at, t.ctx, resp)
              IN  /\ pending' = Resumed(t, s)
                  /\ IF ~s.done
                     THEN /\ last' = Answered(resp,
                             StepRec(t.op, "pending", Undef, <<>>, <<>>,
                                                 <<Req(s.at, s.ctx)>>, NoVal, t.stale))
                          /\ UNCHANGED <<user, isLoading>>
                     ELSE /\ user' = IF HasData(s.env) THEN setUser(user, s.env.data) ELSE setUser(user, NoVal)
                          /\ isLoading' = FALSE
                          /\ last' = Answered(resp,
                                  StepRec(t.op, "returned", Undef, <<>>, <<>>,
                                                 <<>>, Some(s.env), t.stale))
    /\ UNCHANGED <<phase, page, subscription, boot>>

\* The callback's continuation that drops the fetched user when a sign-out
\* was applied while the fetch was in flight.
onAuthStateChange_user_DropsStale ==
    /\ phase = "mounted"
    /\ \E t \in BagToSet(pending) :
         /\ t.op \in {"SIGNED_IN", "TOKEN_REFRESHED"}
         /\ \E resp \in Responses(t.at, t.ctx) :
              LET s == getCurrentUser(t.at, t.ctx, resp)
              IN  /\ pending' = Resumed(t, s)
                  /\ IF ~s.done
                     THEN /\ last' = Answered(resp,
                             StepRec(t.op, "pending", Undef, <<>>, <<>>,
                                                 <<Req(s.at, s.ctx)>>, NoVal, t.stale))
                          /\ UNCHANGED <<user, isLoading>>
                     ELSE /\ user' = IF HasData(s.env) /\ ~t.stale THEN setUser(user, s.env.data) ELSE user
                          /\ isLoading' = FALSE
                          /\ last' = Answered(resp,
                                  StepRec(t.op, "returned", Undef, <<>>, <<>>,
                                                 <<>>, Some(s.env), t.stale))
    /\ UNCHANGED <<phase, page, subscription, boot>>

onAuthStateChange_user ==
    /\ phase = "mounted"
    /\ \E t \in BagToSet(pending) :
         /\ t.op \in {"SIGNED_IN", "TOKEN_REFRESHED"}
         /\ \E resp \in Responses(t.at, t.ctx) :
              LET s == getCurrentUser(t.at, t.ctx, resp)
              IN  /\ pending' = Resumed(t, s)
                  /\ IF ~s.done
                     THEN /\ last' = Answered(resp,
                             StepRec(t.op, "pending", Undef, <<>>, <<>>,
                                                 <<Req(s.at, s.ctx)>>, NoVal, t.stale))
                          /\ UNCHANGED <<user, isLoading>>
                     ELSE /\ user' = IF HasData(s.env) THEN setUser(user, s.env.data) ELSE user
                          /\ isLoading' = FALSE
                          /\ last' = Answered(resp,
                                  StepRec(t.op, "returned", Undef, <<>>, <<>>,
                                                 <<>>, Some(s.env), t.stale))
    /\ UNCHANGED <<phase, page, subscription, boot>>

(***************************************************************************)
(* The operations the bridge exposes.  Each has a step for its call (up to *)
(* the first await) and a step for each resumption.                        *)
(***************************************************************************)
\* The catch / finally of an operation that raises after toast.error.
Raise(op, msg, env, stale) ==
    StepRec(op, "raised", msg, <<Toast("error", msg)>>, <<>>, <<>>, Some(env), stale)

\* login without setIsLoading(true).
loginCall_NoLoading(email, password) ==
    /\ CanStart
    /\ pending' = pending (+) SetToBag({Task("login", "auth.signInWithPassword", NoCtx, RoleOf(user))})
    /\ last' = Called([email |-> email, password |-> password],
            StepRec("login", "pending", Undef, <<>>, <<>>,
                    <<Req("auth.signInWithPassword", [email |-> email, password |-> password])>>,
                    NoVal, FALSE))
    /\ UNCHANGED <<user, isLoading, phase, page, subscription, boot>>

loginCall(email, password) ==
    /\ CanStart
    /\ isLoading' = TRUE
    /\ pending' = pending (+) SetToBag({Task("login", "auth.signInWithPassword", NoCtx, RoleOf(user))})
    /\ last' = Called([email |-> email, password |-> password],
            StepRec("login", "pending", Undef, <<>>, <<>>,
                           <<Req("auth.signInWithPassword", [email |-> email, password |-> password])>>,
                           NoVal, FALSE))
    /\ UNCHANGED <<user, phase, page, subscription, boot>>

\* login that calls getDashboardPath() with no argument, as
\* redirectToDashboard does.
loginResume_NoArgument(t, resp) ==
    LET s == signIn(t.at, t.ctx, resp)
    IN  /\ pending' = Resumed(t, s)
        /\ IF ~s.done
           THEN /\ last' = Answered(resp,
                   StepRec("login", "pending", Undef, <<>>, <<>>,
                                       <<Req(s.at, s.ctx)>>, NoVal, t.stale))
                /\ UNCHANGED <<user, isLoading>>
           ELSE IF ~s.env.success
           THEN /\ last' = Answered(resp,
                   Raise("login", ErrorMessage(s.env, "Login failed"), s.env, t.stale))
                /\ isLoading' = FALSE
                /\ UNCHANGED user
           ELSE IF "data" \in DOMAIN s.env /\ IsSome(s.env.data)
           THEN /\ user' = setUser(user, Some(Val(s.env.data).user))
                /\ last' = Saw(t.role, Answered(resp,
                        StepRec("login", "returned", Undef,
                                       <<Toast("success", "Login successful")>>,
                                       <<getDashboardPath(Undef, t.role)>>,
                                       <<>>, Some(s.env), t.stale)))
                /\ isLoading' = FALSE
           ELSE /\ last' = Answered(resp,
                   StepRec("login", "returned", Undef, <<>>, <<>>, <<>>,
                                       Some(s.env), t.stale))
                /\ isLoading' = FALSE
                /\ UNCHANGED user
        /\ UNCHANGED <<phase, page, subscription, boot>>

loginResume(t, resp) ==
    LET s == signIn(t.at, t.ctx, resp)
    IN  /\ pending' = Resumed(t, s)
        /\ IF ~s.done
           THEN /\ last' = Answered(resp,
                   StepRec("login", "pending", Undef, <<>>, <<>>,
                                       <<Req(s.at, s.ctx)>>, NoVal, t.stale))
                /\ UNCHANGED <<user, isLoading>>
           ELSE IF ~s.env.success
           THEN /\ last' = Answered(resp,
                   Raise("login", ErrorMessage(s.env, "Login failed"), s.env, t.stale))
                /\ isLoading' = FALSE
                /\ UNCHANGED user
           ELSE IF "data" \in DOMAIN s.env /\ IsSome(s.env.data)
           THEN /\ user' = setUser(user, Some(Val(s.env.data).user))
                /\ last' = Saw(t.role, Answered(resp,
                        StepRec("login", "returned", Undef,
                                       <<Toast("success", "Login successful")>>,
                                       <<getDashboardPath(Val(s.env.data).user.role, t.role)>>,
                                       <<>>, Some(s.env), t.stale)))
                /\ isLoading' = FALSE
           ELSE /\ last' = Answered(resp,
                   StepRec("login", "returned", Undef, <<>>, <<>>, <<>>,
                                       Some(s.env), t.stale))
                /\ isLoading' = FALSE
                /\ UNCHANGED user
        /\ UNCHANGED <<phase, page, subscription, boot>>

login ==
    \/ \E email \in Emails, password \in Passwords : loginCall(email, password)
    \/ /\ phase = "mounted"
       /\ \E t \in BagToSet(pending) :
            /\ t.op = "login"
            /\ \E resp \in Responses(t.at, t.ctx) : loginResume(t, resp)

loginWithGoogleCall ==
    /\ CanStart
    /\ isLoading' = TRUE
    /\ pending' = pending (+) SetToBag({Task("loginWithGoogle", "auth.signInWithOAuth", NoCtx, Undef)})
    /\ last' = Called(<<>>,
            StepRec("loginWithGoogle", "pending", Undef, <<>>, <<>>,
                           <<Req("auth.signInWithOAuth",
                                 [provider |-> "google",
                                  redirectTo |-> "http://localhost:3003/auth/callback"])>>,
                           NoVal, FALSE))
    /\ UNCHANGED <<user, phase, page, subscription, boot>>

loginWithGoogleResume(t, resp) ==
    LET s == signInWithGoogle(t.at, t.ctx, resp)
    IN  /\ pending' = Resumed(t, s)
        /\ IF ~s.env.success
           THEN last' = Answered(resp,
                   Raise("loginWithGoogle", ErrorMessage(s.env, "Google login failed"),
                                  s.env, t.stale))
           ELSE last' = Answered(resp,
                   StepRec("loginWithGoogle", "returned", Undef, <<>>, <<>>, <<>>,
                                    Some(s.env), t.stale))
        /\ isLoading' = FALSE
        /\ UNCHANGED <<user, phase, page, subscription, boot>>

loginWithGoogle ==
    \/ loginWithGoogleCall
    \/ /\ phase = "mounted"
       /\ \E t \in BagToSet(pending) :
            /\ t.op = "loginWithGoogle"
            /\ \E resp \in Responses(t.at, t.ctx) : loginWithGoogleResume(t, resp)

\* RegisterData values the forms can pass.
RegisterDatas ==
    { [email |-> "n@o.com", password |-> "pw", firstName |-> "Nia", lastName |-> "Orr",
       phone |-> Undef, role |-> Undef],
      [email |-> "a@b.com", password |-> "pw", firstName |-> "Ana", lastName |-> "Lee",
       phone |-> "555", role |-> "VENDOR"] }

SignUpReq(data) ==
    Req("auth.signUp",
        [email |-> data.email, password |-> data.password,
         options |-> [data |-> [firstName |-> data.firstName, lastName |-> data.lastName,
                                phone |-> data.phone,
                                role |-> OrElse(data.role, "CUSTOMER")]]])

\* The sign-up continuation without the `if (result.data.session)` test.
AfterSignUp_IgnoresSession(op, t, resp) ==
    LET s == signUp(t.at, t.ctx, resp)
    IN  /\ pending' = Resumed(t, s)
        /\ IF ~s.env.success
           THEN /\ last' = Answered(resp,
                   Raise(op, ErrorMessage(s.env, "Registration failed"), s.env, t.stale))
                /\ UNCHANGED user
           ELSE /\ user' = setUser(user, Val(s.env.data).user)
                /\ last' = Answered(resp,
                        StepRec(op, "returned", Undef,
                                <<Toast("success", "Registration successful")>>,
                                <<getDashboardPath(RoleOf(Val(s.env.data).user), t.role)>>,
                                <<>>, Some(s.env), t.stale))
        /\ isLoading' = FALSE
        /\ UNCHANGED <<phase, page, subscription, boot>>

\* The part register and handleSignup share: after `await supabaseAuth.signUp`.
AfterSignUp(op, t, resp) ==
    LET s == signUp(t.at, t.ctx, resp)
    IN  /\ pending' = Resumed(t, s)
        /\ IF ~s.env.success
           THEN /\ last' = Answered(resp,
                   Raise(op, ErrorMessage(s.env, "Registration failed"), s.env, t.stale))
                /\ UNCHANGED user
           ELSE IF "data" \in DOMAIN s.env /\ IsSome(s.env.data)
           THEN IF IsSome(Val(s.env.data).session)
                THEN /\ user' = setUser(user, Val(s.env.data).user)
                     /\ last' = Saw(t.role, Answered(resp,
                             StepRec(op, "returned", Undef,
                                            <<Toast("success", "Registration successful")>>,
                                            <<getDashboardPath(RoleOf(Val(s.env.data).user), t.role)>>,
                                            <<>>, Some(s.env), t.stale)))
                ELSE /\ last' = Answered(resp,
                        StepRec(op, "returned", Undef,
                                            <<Toast("success", "Registration successful! Please check your email to confirm your account.")>>,
                                            <<"/login">>, <<>>, Some(s.env), t.stale))
                     /\ UNCHANGED user
           ELSE /\ last' = Answered(resp,
                   StepRec(op, "returned", Undef, <<>>, <<>>, <<>>, Some(s.env), t.stale))
                /\ UNCHANGED user
        /\ isLoading' = FALSE
        /\ UNCHANGED <<phase, page, subscription, boot>>

registerCall(data) ==
    /\ CanStart
    /\ isLoading' = TRUE
    /\ pending' = pending (+) SetToBag({Task("register", "auth.signUp", NoCtx, RoleOf(user))})
    /\ last' = Called([data |-> data],
            StepRec("register", "pending", Undef, <<>>, <<>>, <<SignUpReq(data)>>, NoVal, FALSE))
    /\ UNCHANGED <<user, phase, page, subscription, boot>>

register ==
    \/ \E data \in RegisterDatas : registerCall(data)
    \/ /\ phase = "mounted"
       /\ \E t \in BagToSet(pending) :
            /\ t.op = "register"
            /\ \E resp \in Responses(t.at, t.ctx) : AfterSignUp("register", t, resp)

\* handleSignup that signs up with its email and password arguments in
\* place of those in userData.
handleSignupCall_UsesArguments(provider, email, password, userData) ==
    /\ CanStart
    /\ IF provider = "google"
       THEN /\ isLoading' = TRUE
            /\ pending' = pending (+) SetToBag({Task("handleSignup", "auth.signInWithOAuth", NoCtx, Undef)})
            /\ last' = Called([provider |-> provider, email |-> email, password |-> password, userData |-> userData],
                    StepRec("handleSignup", "pending", Undef, <<>>, <<>>,
                                   <<Req("auth.signInWithOAuth",
                                         [provider |-> "google",
                                          redirectTo |-> "http://localhost:3003/auth/callback"])>>,
                                   NoVal, FALSE))
       ELSE IF ~Truthy(email) \/ ~Truthy(password) \/ ~IsSome(userData)
       THEN \* setIsLoading(true), the throw, then the finally
            /\ isLoading' = FALSE
            /\ last' = Called([provider |-> provider, email |-> email, password |-> password, userData |-> userData],
                    StepRec("handleSignup", "raised",
                                   "Email, password, and user data are required for email signup",
                                   <<>>, <<>>, <<>>, NoVal, FALSE))
            /\ UNCHANGED pending
       ELSE /\ isLoading' = TRUE
            /\ pending' = pending (+) SetToBag({Task("handleSignup", "auth.signUp", NoCtx, RoleOf(user))})
            /\ last' = Called([provider |-> provider, email |-> email, password |-> password, userData |-> userData],
                    StepRec("handleSignup", "pending", Undef, <<>>, <<>>,
                                   <<SignUpReq([Val(userData) EXCEPT !.email = email,
                                                                      !.password = password])>>, NoVal, FALSE))
    /\ UNCHANGED <<user, phase, page, subscription, boot>>

\* handleSignup(provider, email?, password?, userData?)
handleSignupCall(provider, email, password, userData) ==
    /\ CanStart
    /\ IF provider = "google"
       THEN /\ isLoading' = TRUE
            /\ pending' = pending (+) SetToBag({Task("handleSignup", "auth.signInWithOAuth", NoCtx, Undef)})
            /\ last' = Called([provider |-> provider, email |-> email, password |-> password, userData |-> userData],
                    StepRec("handleSignup", "pending", Undef, <<>>, <<>>,
                                   <<Req("auth.signInWithOAuth",
                                         [provider |-> "google",
                                          redirectTo |-> "http://localhost:3003/auth/callback"])>>,
                                   NoVal, FALSE))
       ELSE IF ~Truthy(email) \/ ~Truthy(password) \/ ~IsSome(userData)
       THEN \* setIsLoading(true), the throw, then the finally
            /\ isLoading' = FALSE
            /\ last' = Called([provider |-> provider, email |-> email, password |-> password, userData |-> userData],
                    StepRec("handleSignup", "raised",
                                   "Email, password, and user data are required for email signup",
                                   <<>>, <<>>, <<>>, NoVal, FALSE))
            /\ UNCHANGED pending
       ELSE /\ isLoading' = TRUE
            /\ pending' = pending (+) SetToBag({Task("handleSignup", "auth.signUp", NoCtx, RoleOf(user))})
            /\ last' = Called([provider |-> provider, email |-> email, password |-> password, userData |-> userData],
                    StepRec("handleSignup", "pending", Undef, <<>>, <<>>,
                                   <<SignUpReq(Val(userData))>>, NoVal, FALSE))
    /\ UNCHANGED <<user, phase, page, subscription, boot>>

handleSignupGoogleResume(t, resp) ==
    LET s == signInWithGoogle(t.at, t.ctx, resp)
    IN  /\ pending' = Resumed(t, s)
        /\ IF ~s.env.success
           THEN last' = Answered(resp,
                   Raise("handleSignup", ErrorMessage(s.env, "Google signup failed"),
                                  s.env, t.stale))
           ELSE last' = Answered(resp,
                   StepRec("handleSignup", "returned", Undef,
                                    <<Toast("success", "Redirecting to Google...")>>, <<>>, <<>>,
                                    Some(s.env), t.stale))
        /\ isLoading' = FALSE
        /\ UNCHANGED <<user, phase, page, subscription, boot>>

\* Arguments the signup forms can pass: all present (the email and password
\* arguments those of userData, or others), or one missing.
SignupArgs ==
    {<<"google", Undef, Undef, NoVal>>}
      \cup {<<"email", d.email, d.password, Some(d)>> : d \in RegisterDatas}
      \cup {<<"email", "e@f.com", "pw2", Some(d)>> : d \in RegisterDatas}
      \cup {<<"email", Undef, "pw", Some(d)>> : d \in RegisterDatas}
      \cup {<<"email", "n@o.com", Undef, Some(d)>> : d \in RegisterDatas}
      \cup {<<"email", "n@o.com", "pw", NoVal>>}

handleSignup ==
    \/ \E a \in SignupArgs : handleSignupCall(a[1], a[2], a[3], a[4])
    \/ /\ phase = "mounted"
       /\ \E t \in BagToSet(pending) :
            /\ t.op = "handleSignup"
            /\ \E resp \in Responses(t.at, t.ctx) :
                 IF t.at = "auth.signInWithOAuth"
                 THEN handleSignupGoogleResume(t, resp)
                 ELSE AfterSignUp("handleSignup", t, resp)

logoutCall ==
    /\ CanStart
    /\ isLoading' = TRUE
    /\ pending' = pending (+) SetToBag({Task("logout", "auth.signOut", NoCtx, Undef)})
    /\ last' = Called(<<>>,
            StepRec("logout", "pending", Undef, <<>>, <<>>,
                           <<Req("auth.signOut", NoCtx)>>, NoVal, FALSE))
    /\ UNCHANGED <<user, phase, page, subscription, boot>>

\* logout whose success path navigates without setUser(null).
logoutResume_KeepsUser(t, resp) ==
    LET s == signOut(t.at, t.ctx, resp)
    IN  /\ pending' = pending (-) SetToBag({t})
        /\ IF ~s.env.success
           THEN last' = Answered(resp, Raise("logout", ErrorMessage(s.env, "Logout failed"),
                                             s.env, t.stale))
           ELSE last' = Answered(resp,
                    StepRec("logout", "returned", Undef,
                            <<Toast("success", "Logged out successfully")>>,
                            <<"/">>, <<>>, Some(s.env), t.stale))
        /\ isLoading' = FALSE
        /\ UNCHANGED <<user, boot, phase, page, subscription>>

logoutResume(t, resp) ==
    LET s == signOut(t.at, t.ctx, resp)
        rest == pending (-) SetToBag({t})
    IN  /\ IF ~s.env.success
           THEN /\ last' = Answered(resp,
                   Raise("logout", ErrorMessage(s.env, "Logout failed"), s.env, t.stale))
                /\ pending' = rest
                /\ UNCHANGED <<user, boot>>
           ELSE /\ user' = setUser(user, NoVal)
                /\ last' = Answered(resp,
                        StepRec("logout", "returned", Undef,
                                       <<Toast("success", "Logged out successfully")>>,
                                       <<"/">>, <<>>, Some(s.env), t.stale))
                /\ pending' = MarkStale(rest)
                /\ boot' = [boot EXCEPT !.stale = (boot.pc \notin {"idle", "done"})]
        /\ isLoading' = FALSE
        /\ UNCHANGED <<phase, page, subscription>>

logout ==
    \/ logoutCall
    \/ /\ phase = "mounted"
       /\ \E t \in BagToSet(pending) :
            /\ t.op = "logout"
            /\ \E resp \in Responses(t.at, t.ctx) : logoutResume(t, resp)

refreshTokenCall ==
    /\ CanStart
    /\ pending' = pending (+) SetToBag({Task("refreshToken", "auth.getUser", NoCtx, Undef)})
    /\ last' = Called(<<>>,
            StepRec("refreshToken", "pending", Undef, <<>>, <<>>,
                           <<Req("auth.getUser", NoCtx)>>, NoVal, FALSE))
    /\ UNCHANGED <<user, isLoading, phase, page, subscription, boot>>

\* refreshToken without its `else setUser(null)`.
refreshTokenResume_KeepsUser(t, resp) ==
    LET s == getCurrentUser(t.at, t.ctx, resp)
    IN  /\ pending' = Resumed(t, s)
        /\ IF ~s.done
           THEN /\ last' = Answered(resp,
                   StepRec("refreshToken", "pending", Undef, <<>>, <<>>,
                           <<Req(s.at, s.ctx)>>, NoVal, t.stale))
                /\ UNCHANGED user
           ELSE /\ user' = IF HasData(s.env) THEN s.env.data ELSE user
                /\ last' = Answered(resp,
                        StepRec("refreshToken", "returned", Undef, <<>>, <<>>, <<>>,
                                Some(s.env), t.stale))
        /\ UNCHANGED <<isLoading, phase, page, subscription, boot>>

refreshTokenResume(t, resp) ==
    LET s == getCurrentUser(t.at, t.ctx, resp)
    IN  /\ pending' = Resumed(t, s)
        /\ IF ~s.done
           THEN /\ last' = Answered(resp,
                   StepRec("refreshToken", "pending", Undef, <<>>, <<>>,
                                       <<Req(s.at, s.ctx)>>, NoVal, t.stale))
                /\ UNCHANGED user
           ELSE /\ user' = setUser(user, IF HasData(s.env) THEN s.env.data ELSE NoVal)
                /\ last' = Answered(resp,
                        StepRec("refreshToken", "returned", Undef, <<>>, <<>>, <<>>,
                                       Some(s.env), t.stale))
        /\ UNCHANGED <<isLoading, phase, page, subscription, boot>>

refreshToken ==
    \/ refreshTokenCall
    \/ /\ phase = "mounted"
       /\ \E t \in BagToSet(pending) :
            /\ t.op = "refreshToken"
            /\ \E resp \in Responses(t.at, t.ctx) : refreshTokenResume(t, resp)

\* Partial<User> values a profile form can pass.
ProfileUpdates ==
    { [firstName |-> "Ann", lastName |-> "Li", phone |-> "555", avatar |-> Undef,
       role |-> Undef, status |-> Undef, email |-> Undef, id |-> Undef],
      [firstName |-> Undef, lastName |-> Undef, phone |-> Undef, avatar |-> "pic.png",
       role |-> "ADMIN", status |-> "SUSPENDED", email |-> "x@y.com", id |-> "u2"] }

\* The update that passes the updates object on as it is and lets it name
\* the row.
UpdateReq_PassesUpdates(userId, updates) ==
    Req("users.update",
        [set |-> [first_name |-> updates.firstName, last_name |-> updates.lastName,
                  phone |-> updates.phone, avatar |-> updates.avatar,
                  role |-> updates.role, status |-> updates.status,
                  email |-> updates.email],
         eq |-> [id |-> OrElse(updates.id, userId)]])

UpdateReq(userId, updates) ==
    Req("users.update",
        [set |-> [first_name |-> updates.firstName, last_name |-> updates.lastName,
                  phone |-> updates.phone, avatar |-> updates.avatar],
         eq |-> [id |-> userId]])

\* updateProfile with its guard moved inside the try, after
\* setIsLoading(true): the finally then clears the flag.
updateProfileCall_GuardInsideTry(updates) ==
    /\ phase = "mounted"
    /\ IF ~IsSome(user)
       THEN /\ isLoading' = FALSE
            /\ last' = Called([updates |-> updates],
                    StepRec("updateProfile", "raised", "No user logged in",
                            <<>>, <<>>, <<>>, NoVal, FALSE))
            /\ UNCHANGED pending
       ELSE /\ BagCardinality(pending) < MaxPending
            /\ isLoading' = TRUE
            /\ pending' = pending (+) SetToBag({Task("updateProfile", "users.update",
                                                      [id |-> Val(user).id, session |-> NoVal],
                                                      Undef)})
            /\ last' = Called([updates |-> updates],
                    StepRec("updateProfile", "pending", Undef, <<>>, <<>>,
                            <<UpdateReq(Val(user).id, updates)>>, NoVal, FALSE))
    /\ UNCHANGED <<user, phase, page, subscription, boot>>

updateProfileCall(updates) ==
    /\ phase = "mounted"
    /\ IF ~IsSome(user)
       THEN /\ last' = Called([updates |-> updates],
               StepRec("updateProfile", "raised", "No user logged in",
                                   <<>>, <<>>, <<>>, NoVal, FALSE))
            /\ UNCHANGED <<isLoading, pending>>
       ELSE /\ BagCardinality(pending) < MaxPending
            /\ isLoading' = TRUE
            /\ pending' = pending (+) SetToBag({Task("updateProfile", "users.update",
                                                      [id |-> Val(user).id, session |-> NoVal],
                                                      Undef)})
            /\ last' = Called([updates |-> updates],
                    StepRec("updateProfile", "pending", Undef, <<>>, <<>>,
                                   <<UpdateReq(Val(user).id, updates)>>, NoVal, FALSE))
    /\ UNCHANGED <<user, phase, page, subscription, boot>>

updateProfileResume(t, resp) ==
    LET s == Service_updateProfile(t.at, t.ctx, resp)
    IN  /\ pending' = Resumed(t, s)
        /\ IF ~s.env.success
           THEN /\ last' = Answered(resp,
                   Raise("updateProfile", ErrorMessage(s.env, "Profile update failed"),
                                     s.env, t.stale))
                /\ UNCHANGED user
           ELSE IF "data" \in DOMAIN s.env /\ IsSome(s.env.data)
           THEN /\ user' = setUser(user, s.env.data)
                /\ last' = Answered(resp,
                        StepRec("updateProfile", "returned", Undef,
                                       <<Toast("success", "Profile updated successfully")>>,
                                       <<>>, <<>>, Some(s.env), t.stale))
           ELSE /\ last' = Answered(resp,
                   StepRec("updateProfile", "returned", Undef, <<>>, <<>>, <<>>,
                                       Some(s.env), t.stale))
                /\ UNCHANGED user
        /\ isLoading' = FALSE
        /\ UNCHANGED <<phase, page, subscription, boot>>

updateProfile ==
    \/ \E updates \in ProfileUpdates : updateProfileCall(updates)
    \/ /\ phase = "mounted"
       /\ \E t \in BagToSet(pending) :
            /\ t.op = "updateProfile"
            /\ \E resp \in Responses(t.at, t.ctx) : updateProfileResume(t, resp)

resetPasswordCall(email) ==
    /\ CanStart
    /\ isLoading' = TRUE
    /\ pending' = pending (+) SetToBag({Task("resetPassword", "auth.resetPasswordForEmail", NoCtx, Undef)})
    /\ last' = Called([email |-> email],
            StepRec("resetPassword", "pending", Undef, <<>>, <<>>,
                           <<Req("auth.resetPasswordForEmail", [email |-> email])>>, NoVal, FALSE))
    /\ UNCHANGED <<user, phase, page, subscription, boot>>

\* resetPassword with setIsLoading(false) at the end of the try instead of
\* in a finally.
resetPasswordResume_NoFinally(t, resp) ==
    LET s == Service_resetPassword(t.at, t.ctx, resp)
    IN  /\ pending' = Resumed(t, s)
        /\ IF ~s.env.success
           THEN /\ last' = Answered(resp,
                      Raise("resetPassword", ErrorMessage(s.env, "Password reset failed"),
                                     s.env, t.stale))
                /\ UNCHANGED isLoading
           ELSE /\ last' = Answered(resp,
                      StepRec("resetPassword", "returned", Undef,
                                       <<Toast("success", "Password reset email sent! Check your inbox.")>>,
                                       <<>>, <<>>, Some(s.env), t.stale))
                /\ isLoading' = FALSE
        /\ UNCHANGED <<user, phase, page, subscription, boot>>

resetPasswordResume(t, resp) ==
    LET s == Service_resetPassword(t.at, t.ctx, resp)
    IN  /\ pending' = Resumed(t, s)
        /\ IF ~s.env.success
           THEN last' = Answered(resp,
                   Raise("resetPassword", ErrorMessage(s.env, "Password reset failed"),
                                  s.env, t.stale))
           ELSE last' = Answered(resp,
                   StepRec("resetPassword", "returned", Undef,
                                    <<Toast("success", "Password reset email sent! Check your inbox.")>>,
                                    <<>>, <<>>, Some(s.env), t.stale))
        /\ isLoading' = FALSE
        /\ UNCHANGED <<user, phase, page, subscription, boot>>

resetPassword ==
    \/ \E email \in Emails : resetPasswordCall(email)
    \/ /\ phase = "mounted"
       /\ \E t \in BagToSet(pending) :
            /\ t.op = "resetPassword"
            /\ \E resp \in Responses(t.at, t.ctx) : resetPasswordResume(t, resp)

\* redirectToDashboard with the callback page's `|| 'CUSTOMER'` fallback.
redirectToDashboard_CustomerFallback ==
    /\ phase = "mounted"
    /\ last' = Called(<<>>,
            StepRec("redirectToDashboard", "returned", Undef, <<>>,
                    <<getDashboardPath(OrElse(RoleOf(user), "CUSTOMER"), RoleOf(user))>>,
                    <<>>, NoVal, FALSE))
    /\ UNCHANGED <<user, isLoading, phase, page, subscription, boot, pending>>

redirectToDashboard ==
    /\ phase = "mounted"
    /\ last' = Called(<<>>,
            StepRec("redirectToDashboard", "returned", Undef, <<>>,
                           <<getDashboardPath(Undef, RoleOf(user))>>, <<>>, NoVal, FALSE))
    /\ UNCHANGED <<user, isLoading, phase, page, subscription, boot, pending>>

(***************************************************************************)
(* OAuthCallbackPage: the page the OAuth provider redirects back to,       *)
(* rendered inside the provider.  It asks the backend client for the       *)
(* session itself.                                                         *)
(***************************************************************************)
\* The values import.meta.env can have in a build.
Envs ==
    {ImportMetaEnv(u, k) :
        u \in {NoVal, Some(<<>>), Url("abcdefgh"), Url("your-project-id")},
        k \in {Undef, "", "anon-key"}}

\* String.prototype.includes on the pieces of a string.
Includes(str, piece) == \E i \in DOMAIN str : str[i] = piece

\* session.user.user_metadata?.role of the sessions the provider hands back.
MetadataRoles == {Undef, "ADMIN", "MANAGER", "VENDOR", "CUSTOMER"}
OAuthSession(role) ==
    [access_token |-> "tok",
     user |-> [id |-> "u1", email |-> "a@b.com", role |-> "authenticated",
               user_metadata |-> [role |-> role]]]

\* A rejected promise of the backend client (the request never answered).
Rejected(m) == [data |-> NoVal, error |-> Some([message |-> m]), rejected |-> TRUE]
IsRejected(r) == "rejected" \in DOMAIN r

\* What supabase.auth.getSession() can answer the page.
PageResponses ==
    {Err("session error"), Rejected("Failed to fetch"), Rejected(""),
     Ok([session |-> NoVal])}
      \cup {Ok([session |-> Some(OAuthSession(r))]) : r \in MetadataRoles}

OAuthCallbackPage_getDashboardPath(userRole, closureRole) ==
    LET role == OrElse(userRole, closureRole)
    IN  IF ~Truthy(role) THEN "/"
        ELSE CASE role = "ADMIN" -> "/admin"
               [] role = "MANAGER" -> "/manager"
               [] role = "VENDOR" -> "/vendor"
               [] OTHER -> "/customer"

\* The page's messages are strings put together from pieces (template
\* strings): a message is the sequence of its pieces.
Text(str) == <<str>>
\* error.message || 'An unexpected error occurred'
MessageOf(message) ==
    IF message \in {Text(Undef), Text("")} THEN Text("An unexpected error occurred")
    ELSE message

\* The catch of handleOAuthCallback: setError, toast.error, setTimeout.
PageCatch(p, message) ==
    [p EXCEPT !.pc = "timer", !.error = Some(MessageOf(message))]

PageFailed(message, resp) ==
    [StepRec("OAuthCallbackPage", "pending", MessageOf(message),
             <<Toast("error", <<"Login failed: ">> \o MessageOf(message))>>,
             <<>>, <<>>, NoVal, FALSE) EXCEPT !.resp = resp]

NoActiveSession == Text("No active session found. Please try logging in again.")
NotConfigured ==
    Text("Supabase not configured. Please set up your environment variables.")

\* handleOAuthCallback that asks for the session before it looks at the
\* configuration.
OAuthCallbackPage_useEffect_NoConfigCheck ==
    /\ phase = "mounted"
    /\ page.pc = "idle"
    /\ page' = [page EXCEPT !.pc = "auth.getSession", !.status = "Finishing sign in...",
                            !.role = RoleOf(user)]
    /\ last' = Called(page.env,
            StepRec("OAuthCallbackPage", "pending", Undef, <<>>, <<>>,
                    <<Req("auth.getSession", NoCtx)>>, NoVal, FALSE))
    /\ UNCHANGED <<user, isLoading, phase, subscription, boot, pending>>

\* The page's effect: handleOAuthCallback() up to its await, or through its
\* catch when the configuration test throws.  The page is rendered inside
\* the provider, whose own effect runs in the same commit.
OAuthCallbackPage_useEffect ==
    /\ phase = "mounted"
    /\ page.pc = "idle"
    /\ LET supabaseUrl == page.env.VITE_SUPABASE_URL
           supabaseKey == page.env.VITE_SUPABASE_ANON_KEY
           started == [page EXCEPT !.status = "Finishing sign in...",
                                   !.role = RoleOf(user)]
       IN  IF \/ ~IsSome(supabaseUrl) \/ Val(supabaseUrl) = <<>>
              \/ ~Truthy(supabaseKey)
              \/ Includes(Val(supabaseUrl), "your-project-id")
           THEN /\ page' = PageCatch(started, NotConfigured)
                /\ last' = Called(page.env, PageFailed(NotConfigured, NoVal))
           ELSE /\ page' = [started EXCEPT !.pc = "auth.getSession"]
                /\ last' = Called(page.env,
                        StepRec("OAuthCallbackPage", "pending", Undef, <<>>, <<>>,
                                <<Req("auth.getSession", NoCtx)>>, NoVal, FALSE))
    /\ UNCHANGED <<user, isLoading, phase, subscription, boot, pending>>

\* handleOAuthCallback resumed at `await supabase.auth.getSession()`.
OAuthCallbackPage_session ==
    /\ phase = "mounted"
    /\ page.pc = "auth.getSession"
    /\ \E resp \in PageResponses :
         IF IsRejected(resp)
         THEN /\ page' = PageCatch(page, Text(Val(resp.error).message))
              /\ last' = PageFailed(Text(Val(resp.error).message), Some(resp))
         ELSE IF IsErr(resp)
         THEN /\ page' = PageCatch(page, <<"Session error: ", Val(resp.error).message>>)
              /\ last' = PageFailed(<<"Session error: ", Val(resp.error).message>>, Some(resp))
         ELSE IF IsSome(resp.data.session)
         THEN /\ page' = [page EXCEPT !.pc = "done",
                                      !.status = "Login successful! Redirecting..."]
              /\ last' = Answered(resp,
                      StepRec("OAuthCallbackPage", "returned", Undef,
                              <<Toast("success", "Login successful!")>>,
                              <<OAuthCallbackPage_getDashboardPath(
                                  OrElse(Val(resp.data.session).user.user_metadata.role,
                                         "CUSTOMER"),
                                  page.role)>>,
                              <<>>, NoVal, FALSE))
         ELSE /\ page' = PageCatch(page, NoActiveSession)
              /\ last' = PageFailed(NoActiveSession, Some(resp))
    /\ UNCHANGED <<user, isLoading, phase, subscription, boot, pending>>

\* The setTimeout callback of the catch, 3000 ms later.
OAuthCallbackPage_timeout ==
    /\ phase = "mounted"
    /\ page.pc = "timer"
    /\ page' = [page EXCEPT !.pc = "done"]
    /\ last' = StepRec("OAuthCallbackPage", "returned", Val(page.error), <<>>,
                       <<"/login">>, <<>>, NoVal, FALSE)
    /\ UNCHANGED <<user, isLoading, phase, subscription, boot, pending>>

Next ==
    \/ Mount
    \/ Unmount
    \/ getInitialSession_session
    \/ getInitialSession_user
    \/ PushEvent
    \/ onAuthStateChange_user
    \/ login
    \/ loginWithGoogle
    \/ register
    \/ handleSignup
    \/ logout
    \/ refreshToken
    \/ updateProfile
    \/ resetPassword
    \/ redirectToDashboard

Spec == Init /\ [][Next]_vars

\* The backend answers every request of the bootstrap: a task awaiting a
\* response is eventually resumed.
LiveSpec ==
    Spec /\ WF_vars(getInitialSession_session) /\ WF_vars(getInitialSession_user)

\* The callback route: the provider mounts and bootstraps while the page
\* finishes the sign-in; the build's configuration is any of Envs.  A timer
\* that was set fires.
CallbackInit ==
    /\ BridgeInit
    /\ page \in {PageInit(env) : env \in Envs}

CallbackNext ==
    \/ Mount
    \/ Unmount
    \/ getInitialSession_session
    \/ getInitialSession_user
    \/ OAuthCallbackPage_useEffect
    \/ OAuthCallbackPage_session
    \/ OAuthCallbackPage_timeout

CallbackSpec ==
    CallbackInit /\ [][CallbackNext]_vars /\ WF_vars(OAuthCallbackPage_timeout)

(***************************************************************************)
(* The auth service on its own: any caller calls any of its methods, the   *)
(* backend answers each request (or the request is rejected), and the      *)
(* method returns a value or throws.                                       *)
(***************************************************************************)
\* A call in progress: the method and the arguments it was called with.
ServiceOp(method, args) == <<"supabaseAuth", method, args>>

NewPasswords == {"pw", "pw2", ""}

\* The methods of SupabaseAuthService, each with the request it makes first
\* and the arguments of a call.
ServiceCalls ==
    {[method |-> "signUpWithEmail", at |-> "auth.signUp", ctx |-> NoCtx,
      args |-> <<e, pw>>] : e \in Emails, pw \in Passwords}
      \cup {[method |-> "createUserProfile", at |-> "users.insert",
             ctx |-> [id |-> "u1", session |-> NoVal, values |-> ProfileInsert("u1", d)],
             args |-> <<"u1", d>>] : d \in RegisterDatas}
      \cup {[method |-> "signUp", at |-> "auth.signUp", ctx |-> NoCtx,
             args |-> <<d>>] : d \in RegisterDatas}
      \cup {[method |-> "signIn", at |-> "auth.signInWithPassword", ctx |-> NoCtx,
             args |-> <<e, pw>>] : e \in Emails, pw \in Passwords}
      \cup {[method |-> "updateProfile", at |-> "users.update",
             ctx |-> [id |-> "u1", session |-> NoVal], args |-> <<"u1", u>>] : u \in ProfileUpdates}
      \cup {[method |-> "resetPassword", at |-> "auth.resetPasswordForEmail", ctx |-> NoCtx,
             args |-> <<e>>] : e \in Emails}
      \cup {[method |-> "updatePassword", at |-> "auth.updateUser", ctx |-> NoCtx,
             args |-> <<pw>>] : pw \in NewPasswords}
      \cup {[method |-> m[1], at |-> m[2], ctx |-> NoCtx, args |-> <<>>] :
              m \in {<<"signOut", "auth.signOut">>,
                     <<"getCurrentUser", "auth.getUser">>,
                     <<"getCurrentSession", "auth.getSession">>,
                     <<"signInWithGoogle", "auth.signInWithOAuth">>,
                     <<"handleOAuthCallback", "auth.getSession">>}}

\* The method resumed at request `at` with response resp.
ServiceStep(method, at, ctx, resp) ==
    CASE method = "signUpWithEmail" -> signUpWithEmail(at, ctx, resp)
      [] method = "createUserProfile" -> createUserProfile(at, ctx, resp)
      [] method = "signUp" -> signUp(at, ctx, resp)
      [] method = "signIn" -> signIn(at, ctx, resp)
      [] method = "signOut" -> signOut(at, ctx, resp)
      [] method = "getCurrentUser" -> getCurrentUser(at, ctx, resp)
      [] method = "getCurrentSession" -> getCurrentSession(at, ctx, resp)
      [] method = "updateProfile" -> Service_updateProfile(at, ctx, resp)
      [] method = "signInWithGoogle" -> signInWithGoogle(at, ctx, resp)
      [] method = "handleOAuthCallback" -> handleOAuthCallback(at, ctx, resp)
      [] method = "resetPassword" -> Service_resetPassword(at, ctx, resp)
      [] method = "updatePassword" -> updatePassword(at, ctx, resp)

ServiceCall ==
    /\ pending = EmptyBag
    /\ \E c \in ServiceCalls :
         /\ pending' = SetToBag({Task(ServiceOp(c.method, c.args), c.at, c.ctx, Undef)})
         /\ last' = Called(c.args,
                 StepRec(ServiceOp(c.method, c.args), "pending", Undef, <<>>, <<>>,
                         <<Req(c.at, c.ctx)>>, NoVal, FALSE))
    /\ UNCHANGED <<user, isLoading, phase, page, subscription, boot>>

\* The sessions a Google sign-in leaves behind: the provider's profile is in
\* user_metadata (a one-word or a two-word full name, a picture or none).
FullNames == {<<"Ana">>, <<"Ana", "Lee">>}
GoogleSession(fullName, avatarUrl) ==
    [access_token |-> "tok",
     user |-> [id |-> "u1", email |-> "a@b.com", role |-> "authenticated",
               user_metadata |-> [full_name |-> fullName, avatar_url |-> avatarUrl]]]
GoogleSessions(t) ==
    IF t.op[2] = "handleOAuthCallback" /\ t.at = "auth.getSession"
    THEN {Ok([session |-> Some(GoogleSession(n, a))]) : n \in FullNames, a \in {Undef, "g.png"}}
    ELSE {}

ServiceAnswer ==
    \E t \in BagToSet(pending) :
      \E resp \in Responses(t.at, t.ctx) \cup GoogleSessions(t)
                    \cup {Rejected("Failed to fetch")} :
         LET s == ServiceStep(t.op[2], t.at, t.ctx, resp)
         IN  /\ pending' = Resumed(t, s)
             /\ IF ~s.done
                THEN last' = Answered(resp,
                        StepRec(t.op, "pending", Undef, <<>>, <<>>,
                                <<Req(s.at, s.ctx)>>, NoVal, FALSE))
                ELSE IF "threw" \in DOMAIN s
                THEN last' = Answered(resp,
                        StepRec(t.op, "raised", s.threw.message, <<>>, <<>>, <<>>,
                                NoVal, FALSE))
                ELSE last' = Answered(resp,
                        StepRec(t.op, "returned", Undef, <<>>, <<>>, <<>>,
                                Some(s.env), FALSE))
             /\ UNCHANGED <<user, isLoading, phase, page, subscription, boot>>

ServiceNext == ServiceCall \/ ServiceAnswer

ServiceSpec == Init /\ [][ServiceNext]_vars

(***************************************************************************)
(* Properties.                                                             *)
(***************************************************************************)
\* The documented surface of a present role.
Surface(role) ==
    CASE role = "ADMIN" -> "/admin"
      [] role = "MANAGER" -> "/manager"
      [] role = "VENDOR" -> "/vendor"
      [] OTHER -> "/customer"

\* The latest step ended operation op.
Exited(op) == last.op = op /\ last.outcome \in {"returned", "raised"}
\* The envelope the latest step received, and its raw backend response.
Env == Val(last.env)
Resp == Val(last.resp)

\* C1: when login returns after a successful sign-in (whatever else ran in
\* between), the local user is the mapped profile of the sign-in result, the
\* loading flag is false, and the step navigated once, to the surface of
\* that user's role.
C1_LoginInstallsUser ==
    (last.op = "login" /\ last.outcome = "returned" /\ Env.success) =>
        /\ IsSome(Env.data)
        /\ user = Some(Val(Env.data).user)
        /\ Val(Env.data).user = mapDatabaseUserToUser(Val(Resp.data))
        /\ isLoading = FALSE
        /\ last.navs = <<Surface(Val(user).role)>>

\* A login returned with a user installed while the bootstrap was still
\* fetching, and with another user installed when login was called.
C1_Witness ==
    /\ last.op = "login" /\ last.outcome = "returned" /\ Env.success
    /\ boot.pc = "users.select"
    /\ Val(user).role = "ADMIN"
    /\ last.navs = <<"/admin">>

\* C2 as stated: after logout completes, whether the backend sign-out
\* succeeded or failed, the local user is absent and the loading flag is
\* false.
C2_LogoutAlwaysClears ==
    Exited("logout") => user = NoVal /\ isLoading = FALSE

\* C2, amended: after logout completes the loading flag is false; the local
\* user is absent, whatever it was before, when the backend confirmed the
\* sign-out, and logout returns normally exactly then.
C2_LogoutClearsOnSuccess ==
    Exited("logout") =>
        /\ isLoading = FALSE
        /\ ~IsErr(Resp) => (last.outcome = "returned" /\ user = NoVal)
        /\ last.outcome = "returned" => ~IsErr(Resp)

\* A logout returned after a confirmed sign-out: the user is gone.
C2_Witness ==
    /\ last.op = "logout" /\ last.outcome = "returned"
    /\ ~IsErr(Resp)
    /\ user = NoVal /\ isLoading = FALSE

\* C3: the step that ends logout after a failed backend sign-out raises the
\* backend's message, leaves the local user as it was and navigates nowhere;
\* the step clears the user and navigates to "/" only when the backend
\* confirmed the sign-out.
C3_LogoutFailureKeepsUser ==
    [][ (last'.op = "logout" /\ last'.outcome # "pending") =>
          IF IsErr(Val(last'.resp))
          THEN /\ last'.outcome = "raised"
               /\ last'.error = Val(Val(last'.resp).error).message
               /\ user' = user
               /\ last'.navs = <<>>
          ELSE /\ last'.outcome = "returned"
               /\ user' = NoVal
               /\ last'.navs = <<"/">> ]_vars

\* A logout raised on a failed sign-out and the user is still installed.
C3_Witness ==
    /\ last.op = "logout" /\ last.outcome = "raised"
    /\ IsErr(Resp)
    /\ IsSome(user)
    /\ last.navs = <<>>

\* A login is suspended at one of its awaits.
LoginPending == \E t \in BagToSet(pending) : t.op = "login"
\* The handlers that are awaiting the backend when the bootstrap is.
BootAwaiting == {"auth.getSession", "auth.getUser", "users.select"}
PushFetch == {"SIGNED_IN", "TOKEN_REFRESHED"}

\* C4 as stated: the loading flag is true for as long as a login is
\* pending (no other handler makes it false meanwhile) and false when login
\* exits.
C4_LoadingTrueWhileLoginPending ==
    /\ LoginPending => isLoading = TRUE
    /\ Exited("login") => isLoading = FALSE

\* C4, amended: login sets the flag true when it is called, its own
\* resumptions between awaits leave the flag alone, and the flag is false
\* when login exits (returning or raising); while a login stays pending the
\* flag becomes false only in the step that ends another handler (the
\* bootstrap, a push-event callback, another operation).
C4_LoginLoadingFlag ==
    [][ /\ (last'.op = "login" /\ IsSome(last'.input)) => isLoading' = TRUE
        /\ (last'.op = "login" /\ last'.outcome = "pending" /\ IsSome(last'.resp))
              => isLoading' = isLoading
        /\ (last'.op = "login" /\ last'.outcome # "pending") => isLoading' = FALSE
        /\ (LoginPending /\ LoginPending' /\ isLoading /\ ~isLoading')
              => /\ last'.outcome \in {"returned", "raised"}
                 /\ last'.op \in {"getInitialSession"} \cup Events
                       \cup {"login", "loginWithGoogle", "register", "handleSignup",
                             "logout", "updateProfile", "resetPassword"} ]_vars

\* The bootstrap finished while a login was awaiting the backend, and the
\* flag is false with the login still pending.
C4_Witness ==
    /\ LoginPending
    /\ isLoading = FALSE
    /\ last.op = "getInitialSession" /\ last.outcome = "returned"

\* C5: a push event changes the local user as the event table says.  The
\* callback called with SIGNED_IN or TOKEN_REFRESHED and a session issues
\* the user fetch and leaves the user alone until it is answered, and the
\* answer with a user present installs that user; SIGNED_OUT sets the user
\* absent; any other event, and SIGNED_IN or TOKEN_REFRESHED without a
\* session, issues no request and leaves the user unchanged.
C5_PushEventTable ==
    [][ /\ (last'.op \in Events /\ IsSome(last'.input)) =>
              IF last'.op \in PushFetch /\ IsSome(Val(last'.input).session)
              THEN /\ last'.reqs = <<Req("auth.getUser", NoCtx)>>
                   /\ last'.outcome = "pending"
                   /\ user' = user
              ELSE IF last'.op = "SIGNED_OUT"
              THEN /\ last'.reqs = <<>>
                   /\ user' = NoVal
              ELSE /\ last'.reqs = <<>>
                   /\ last'.outcome = "returned"
                   /\ pending' = pending
                   /\ user' = user
        /\ (last'.op \in PushFetch /\ IsSome(last'.resp) /\ last'.outcome = "pending")
              => user' = user
        /\ (/\ last'.op \in PushFetch /\ last'.outcome = "returned"
            /\ IsSome(last'.env)
            /\ Val(last'.env).success /\ IsSome(Val(last'.env).data))
              => /\ user' = Val(last'.env).data
                 /\ user' = Some(mapDatabaseUserToUser(Val(Val(last'.resp).data))) ]_vars

\* A TOKEN_REFRESHED callback fetched the user and installed it.
C5_Witness ==
    /\ last.op = "TOKEN_REFRESHED" /\ last.outcome = "returned"
    /\ IsSome(last.resp) /\ ~IsErr(Resp)
    /\ IsSome(user)
    /\ user = Env.data

\* C6: last writer wins between the bootstrap and the push events.  A
\* SIGNED_OUT event handled while the bootstrap is awaiting the backend
\* clears the user and leaves the bootstrap in flight; the bootstrap's user
\* fetch, answered afterwards with a user present, installs that user all
\* the same; and a push-event callback answered with a user before the
\* bootstrap is done installs it.
C6_LastWriterWins ==
    [][ /\ (last'.op = "SIGNED_OUT" /\ boot.pc \in BootAwaiting)
              => user' = NoVal /\ boot'.pc = boot.pc
        /\ (/\ last'.op = "getInitialSession" /\ last'.outcome = "returned"
            /\ boot.pc \in {"auth.getUser", "users.select"}
            /\ Val(last'.env).success /\ IsSome(Val(last'.env).data))
              => user' = Val(last'.env).data
        /\ (/\ last'.op \in PushFetch /\ last'.outcome = "returned"
            /\ boot.pc \in BootAwaiting /\ IsSome(last'.env)
            /\ Val(last'.env).success /\ IsSome(Val(last'.env).data))
              => user' = Val(last'.env).data /\ boot' = boot ]_vars

\* The bootstrap installed a user after a sign-out had been applied while
\* its fetch was in flight.
C6_Witness ==
    /\ last.op = "getInitialSession" /\ last.outcome = "returned"
    /\ last.stale
    /\ IsSome(user)
    /\ user = Env.data

\* C7: the bootstrap asks for the session first; it asks for the user only
\* when the session fetch succeeded with a session, and otherwise ends at
\* once; it installs a user only when the user fetch succeeded with a user;
\* whenever it ends the loading flag is false; and, its backend calls being
\* answered, it ends (unless the process is torn down first).
C7_Bootstrap ==
    /\ [][ /\ last'.op = "mount" => last'.reqs = <<Req("auth.getSession", NoCtx)>>
           /\ (last'.op = "getInitialSession" /\ boot.pc = "auth.getSession") =>
                 /\ user' = user
                 /\ IF ~IsErr(Val(last'.resp)) /\ IsSome(Val(last'.resp).data.session)
                    THEN /\ last'.reqs = <<Req("auth.getUser", NoCtx)>>
                         /\ boot'.pc = "auth.getUser"
                         /\ isLoading' = isLoading
                    ELSE /\ last'.reqs = <<>>
                         /\ boot'.pc = "done"
           /\ (last'.op = "getInitialSession" /\ user' # user) =>
                 /\ boot.pc = "users.select"
                 /\ Val(last'.env).success
                 /\ user' = Val(last'.env).data /\ IsSome(user')
           /\ (boot.pc # "done" /\ boot'.pc = "done") => isLoading' = FALSE ]_vars
    /\ (boot.pc \in BootAwaiting) ~> (boot.pc = "done" \/ phase = "unmounted")

\* The bootstrap ended on a failed user fetch: no user, loading false.
C7_Witness ==
    /\ boot.pc = "done"
    /\ last.op = "getInitialSession" /\ last.outcome = "returned"
    /\ ~Env.success /\ Env.error = "db error"
    /\ user = NoVal
    /\ isLoading = FALSE

\* C8: updateProfile called with no user installed raises 'No user logged
\* in' in the step of the call, issues no backend request, and leaves the
\* local user, the loading flag and the tasks in flight as they were.
C8_UpdateProfileNoUser ==
    [][ (last'.op = "updateProfile" /\ IsSome(last'.input) /\ ~IsSome(user)) =>
           /\ last'.outcome = "raised"
           /\ last'.error = "No user logged in"
           /\ last'.reqs = <<>>
           /\ user' = user
           /\ isLoading' = isLoading
           /\ pending' = pending ]_vars

\* updateProfile raised for want of a user while the loading flag was true.
C8_Witness ==
    /\ last.op = "updateProfile" /\ last.outcome = "raised"
    /\ last.error = "No user logged in"
    /\ user = NoVal
    /\ isLoading = TRUE

\* C9: the step that ends updateProfile sets the loading flag false; when
\* the backend update succeeded it replaces the local user with the mapped
\* record the backend returned, and when it failed it raises the backend's
\* message and leaves the local user unchanged.
C9_UpdateProfileInstalls ==
    [][ (last'.op = "updateProfile" /\ IsSome(last'.resp)) =>
           /\ isLoading' = FALSE
           /\ IF IsErr(Val(last'.resp))
              THEN /\ last'.outcome = "raised"
                   /\ last'.error = Val(Val(last'.resp).error).message
                   /\ user' = user
              ELSE /\ last'.outcome = "returned"
                   /\ user' = Some(mapDatabaseUserToUser(Val(Val(last'.resp).data))) ]_vars

\* updateProfile returned and the user is the mapped updated row.
C9_Witness ==
    /\ last.op = "updateProfile" /\ last.outcome = "returned"
    /\ user = Some(mapDatabaseUserToUser(Row2))
    /\ Val(user).firstName = "Ann" /\ Val(user).phone = "555"
    /\ isLoading = FALSE

\* The user values a single backend response can deliver: a mapped row
\* (sign-in, user fetch, profile update) or the auth user of a sign-up.
Deliverable ==
    {Some(mapDatabaseUserToUser(r)) : r \in Rows} \cup {Some(au) : au \in AuthUsers}

\* C10: in every reachable state the local user is absent or is one whole
\* user value as a single backend response delivers it; no interleaving
\* leaves a user with fields of two responses.
C10_UserIsOneResponse ==
    user = NoVal \/ user \in Deliverable

\* The bootstrap's fetch replaced a user installed by another response
\* while an updateProfile for that earlier user was still in flight.
C10_Witness ==
    /\ last.op = "getInitialSession" /\ last.outcome = "returned"
    /\ user = Some(mapDatabaseUserToUser(Row2))
    /\ \E t \in BagToSet(pending) : t.op = "updateProfile"

\* The roles of the User type.
UserRoles == {"ADMIN", "MANAGER", "VENDOR", "CUSTOMER"}

\* C11: in every reachable state an installed local user has one of the
\* four roles of the User type, whichever operation installed it.
C11_RoleEnumerated ==
    IsSome(user) => Val(user).role \in UserRoles

\* Role values a caller or a backend record can hand the router: the four
\* roles, a present role outside them, and the absent ones.
RouterInputs == UserRoles \cup {"authenticated", Undef, ""}

\* C12: the role router maps ADMIN, MANAGER, VENDOR to their surfaces,
\* CUSTOMER and any other present role to "/customer", and an absent role
\* with no installed user's role to fall back on to "/"; redirectToDashboard
\* navigates once, to the router's result for the installed user's role and
\* to "/" when no user is installed, and changes nothing else.
C12_RoleRouter ==
    /\ [](\A r \in RouterInputs, c \in RouterInputs :
             getDashboardPath(r, c) =
                IF Truthy(r) THEN Surface(r)
                ELSE IF Truthy(c) THEN Surface(c) ELSE "/")
    /\ [][ last'.op = "redirectToDashboard" =>
             /\ last'.navs = <<IF IsSome(user) /\ Truthy(Val(user).role)
                               THEN Surface(Val(user).role) ELSE "/">>
             /\ last'.navs = <<getDashboardPath(Undef, RoleOf(user))>>
             /\ last'.reqs = <<>> /\ last'.toasts = <<>>
             /\ UNCHANGED <<user, isLoading, phase, subscription, boot, pending, page>> ]_vars

\* redirectToDashboard navigated to the vendor surface for an installed
\* vendor.
C12_Witness ==
    /\ last.op = "redirectToDashboard"
    /\ IsSome(user) /\ Val(user).role = "VENDOR"
    /\ last.navs = <<"/vendor">>

\* C13: the step that ends register, by the answer to the sign-up: on a
\* failure it raises the backend's message, leaves the local user as it was
\* and navigates nowhere; on a success with a session it installs the
\* returned user and navigates once, to the router's destination for that
\* user's role; on a success without a session it leaves the local user as
\* it was and navigates once, to "/login".
C13_Register ==
    [][ (last'.op = "register" /\ IsSome(last'.resp)) =>
          IF IsErr(Val(last'.resp))
          THEN /\ last'.outcome = "raised"
               /\ last'.error = Val(Val(last'.resp).error).message
               /\ user' = user
               /\ last'.navs = <<>>
          ELSE /\ last'.outcome = "returned"
               /\ IF IsSome(Val(last'.resp).data.session)
                  THEN /\ user' = Val(last'.resp).data.user
                       /\ IsSome(user')
                       /\ last'.navs = <<Surface(Val(user').role)>>
                  ELSE /\ user' = user
                       /\ last'.navs = <<"/login">> ]_vars

\* register returned on a sign-up that awaits confirmation: the user
\* installed before is still there and the step navigated to "/login".
C13_Witness ==
    /\ last.op = "register" /\ last.outcome = "returned"
    /\ ~IsSome(Resp.data.session)
    /\ IsSome(user) /\ Val(user).role = "VENDOR"
    /\ last.navs = <<"/login">>

\* C14: no step of refreshToken navigates, notifies or changes the loading
\* flag; a step that leaves it suspended leaves the local user alone; the
\* step that ends it installs the fetched user, the mapped users row, when
\* the fetch returned one, and sets the local user absent otherwise (no
\* authenticated user, no row, or a failed fetch).
C14_RefreshToken ==
    [][ last'.op = "refreshToken" =>
          /\ last'.navs = <<>>
          /\ isLoading' = isLoading
          /\ last'.outcome = "pending" => user' = user
          /\ last'.outcome # "pending" =>
               IF Val(last'.env).success /\ IsSome(Val(last'.env).data)
               THEN /\ user' = Val(last'.env).data
                    /\ user' = Some(mapDatabaseUserToUser(Val(Val(last'.resp).data)))
               ELSE user' = NoVal ]_vars

\* refreshToken ended on a backend with no authenticated user: the local
\* user is absent and the loading flag, true since construction, still is.
C14_Witness ==
    /\ last.op = "refreshToken" /\ last.outcome = "returned"
    /\ Env.success /\ ~IsSome(Env.data)
    /\ user = NoVal
    /\ isLoading = TRUE

\* C15: no step of loginWithGoogle or of resetPassword changes the local
\* user or navigates; the step that ends either sets the loading flag
\* false, and it raises the backend's message, after an error notification
\* of it, exactly when the backend reported failure.
C15_NoLocalChange ==
    [][ last'.op \in {"loginWithGoogle", "resetPassword"} =>
          /\ user' = user
          /\ last'.navs = <<>>
          /\ IsSome(last'.resp) =>
               /\ last'.outcome # "pending"
               /\ isLoading' = FALSE
               /\ IF IsErr(Val(last'.resp))
                  THEN /\ last'.outcome = "raised"
                       /\ last'.error = Val(Val(last'.resp).error).message
                       /\ last'.toasts = <<Toast("error", last'.error)>>
                  ELSE last'.outcome = "returned" ]_vars

\* loginWithGoogle raised on a failed OAuth handoff with a user installed:
\* the user is still there and the loading flag is false.
C15_Witness ==
    /\ last.op = "loginWithGoogle" /\ last.outcome = "raised"
    /\ IsErr(Resp)
    /\ IsSome(user)
    /\ isLoading = FALSE

\* The operations of the bridge a user initiates.
UserOperations ==
    {"login", "loginWithGoogle", "register", "handleSignup", "logout",
     "refreshToken", "updateProfile", "resetPassword"}

\* C16: whenever a user-initiated operation ends on a backend call that
\* reported failure, it has presented an error notification of the failure
\* and raises it to its caller; none returns normally.
C16_FailureRaises ==
    (/\ last.op \in UserOperations
     /\ last.outcome # "pending"
     /\ IsSome(last.env) /\ ~Env.success) =>
        /\ last.outcome = "raised"
        /\ last.error = Env.error
        /\ last.toasts = <<Toast("error", Env.error)>>

\* A result envelope: success with a payload, or failure with a message,
\* and nothing else.
IsEnvelope(v) ==
    \/ DOMAIN v = {"success", "data"} /\ v.success
    \/ DOMAIN v = {"success", "error"} /\ ~v.success
\* The latest step, the answer to a request, ended a call of a service
\* method (in ServiceSpec the service's methods are all that runs).
ServiceEnded == IsSome(last.resp) /\ last.outcome # "pending"

\* C17 as stated: every method of the auth service, on every path, ends by
\* returning a result envelope; none raises and none returns a bare backend
\* value.
C17_AlwaysEnvelope ==
    ServiceEnded => last.outcome = "returned" /\ IsEnvelope(Env)

\* C17, amended: every method of the auth service other than
\* signUpWithEmail ends, on every path (a rejected request included), by
\* returning a result envelope, a failure envelope with the backend's
\* message when the request it awaited failed; signUpWithEmail returns the
\* backend's sign-up data as it is on success and raises the backend's
\* error on failure.
C17_EnvelopeExceptSignUpWithEmail ==
    ServiceEnded =>
        IF last.op[2] = "signUpWithEmail"
        THEN IF IsErr(Resp)
             THEN last.outcome = "raised" /\ last.error = Val(Resp.error).message
             ELSE last.outcome = "returned" /\ Env = Resp.data /\ ~IsEnvelope(Env)
        ELSE /\ last.outcome = "returned"
             /\ IsEnvelope(Env)
             /\ IsErr(Resp) => (~Env.success /\ Env.error = Val(Resp.error).message)

\* handleOAuthCallback returned a failure envelope for a request that was
\* rejected after the session had been fetched.
C17_Witness ==
    /\ ServiceEnded
    /\ last.op[2] = "handleOAuthCallback"
    /\ IsRejected(Resp)
    /\ Env = [success |-> FALSE, error |-> "Failed to fetch"]

\* Every suspended task of operation op awaits request at: the response of
\* the next step of op answers that request.
AllAt(op, at) ==
    /\ \E t \in BagToSet(pending) : t.op = op
    /\ \A t \in BagToSet(pending) : t.op = op => t.at = at
\* The answer `no authenticated user` or `no row`, at the request at.
Nothing(at, resp) ==
    /\ ~IsErr(resp)
    /\ IF at = "auth.getUser" THEN ~IsSome(resp.data.user) ELSE ~IsSome(resp.data)

\* C18: a missing profile row is a descriptive outcome, never a backend
\* fault.  When the users select of a login is answered with no row, signIn
\* returns the failure envelope 'User profile not found', and login raises
\* that message and leaves the local user as it was; when getCurrentUser
\* (of refreshToken, of a push-event callback, of the bootstrap) is answered
\* with no authenticated user or with no row, it returns the success
\* envelope with an absent payload and its caller returns normally.
C18_MissingRow ==
    [][ /\ (/\ last'.op = "login" /\ IsSome(last'.resp)
            /\ AllAt("login", "users.select")
            /\ Nothing("users.select", Val(last'.resp))) =>
              /\ last'.env = Some([success |-> FALSE, error |-> "User profile not found"])
              /\ last'.outcome = "raised"
              /\ last'.error = "User profile not found"
              /\ user' = user
        /\ \A op \in {"refreshToken"} \cup PushFetch, at \in {"auth.getUser", "users.select"} :
             (/\ last'.op = op /\ IsSome(last'.resp)
              /\ AllAt(op, at)
              /\ Nothing(at, Val(last'.resp))) =>
                /\ last'.env = Some([success |-> TRUE, data |-> NoVal])
                /\ last'.outcome = "returned"
        /\ (/\ last'.op = "getInitialSession" /\ boot.pc \in {"auth.getUser", "users.select"}
            /\ Nothing(boot.pc, Val(last'.resp))) =>
              /\ last'.env = Some([success |-> TRUE, data |-> NoVal])
              /\ last'.outcome = "returned"
              /\ user' = user ]_vars

\* A login raised 'User profile not found' on accepted credentials with no
\* users row, and no user is installed.
C18_Witness ==
    /\ last.op = "login" /\ last.outcome = "raised"
    /\ ~IsErr(Resp)
    /\ last.error = "User profile not found"
    /\ user = NoVal

\* C19: the push-event subscription is registered exactly while the bridge
\* is mounted: none before the mount, active from the mount to the
\* teardown whatever the handlers do in between (failed and raising steps
\* included), released after the teardown.  It is acquired only by the
\* mount step, released only by the teardown step, and once released it is
\* never registered or released again.
C19_SubscriptionScoped ==
    /\ [](/\ phase = "created" <=> subscription = "none"
          /\ phase = "mounted" <=> subscription = "active"
          /\ phase = "unmounted" <=> subscription = "released")
    /\ [][ /\ subscription' # subscription =>
                \/ last'.op = "mount" /\ subscription = "none" /\ subscription' = "active"
                \/ last'.op = "unmount" /\ subscription = "active"
                     /\ subscription' = "released"
           /\ last'.op = "mount" => subscription' = "active"
           /\ last'.op = "unmount" => subscription' = "released"
           /\ subscription = "released" => subscription' = "released" ]_vars

\* The bridge was torn down while its bootstrap was still awaiting the
\* backend: the subscription is released.
C19_Witness ==
    /\ phase = "unmounted"
    /\ boot.pc = "dropped"
    /\ subscription = "released"

\* The configuration is unusable: the URL is missing (undefined or empty),
\* the public key is missing, or the URL contains the placeholder.
Misconfigured(env) ==
    \/ env.VITE_SUPABASE_URL \in {NoVal, Some(<<>>)}
    \/ env.VITE_SUPABASE_ANON_KEY \in {Undef, ""}
    \/ \E i \in DOMAIN Val(env.VITE_SUPABASE_URL) :
          Val(env.VITE_SUPABASE_URL)[i] = "your-project-id"

\* C20: with an unusable configuration no step of the OAuth callback issues
\* a backend request or navigates anywhere but to "/login"; its first step
\* enters the error state with the message 'Supabase not configured. Please
\* set up your environment variables.', notifies it and sets the timer, the
\* error state is kept from then on, and the timer, once set, fires and
\* navigates to "/login" (unless the process is torn down first).
C20_NotConfigured ==
    /\ [][ (Misconfigured(page.env) /\ last'.op = "OAuthCallbackPage") =>
              /\ last'.reqs = <<>>
              /\ last'.navs \in {<<>>, <<"/login">>}
              /\ page'.error = Some(NotConfigured)
              /\ page.pc = "idle" =>
                   /\ page'.pc = "timer"
                   /\ last'.navs = <<>>
                   /\ last'.toasts = <<Toast("error", <<"Login failed: ">> \o NotConfigured)>>
              /\ page.pc = "timer" =>
                   /\ page'.pc = "done"
                   /\ last'.navs = <<"/login">> ]_vars
    /\ [](Misconfigured(page.env) => page.pc \in {"idle", "timer", "done"})
    /\ (Misconfigured(page.env) /\ page.pc = "timer")
          ~> (page.pc = "done" \/ phase = "unmounted")

\* A build whose URL still holds the placeholder: the callback page is in
\* its error state and has navigated to "/login".
C20_Witness ==
    /\ page.env = ImportMetaEnv(Url("your-project-id"), "anon-key")
    /\ page.error = Some(NotConfigured)
    /\ page.pc = "done"
    /\ last.op = "OAuthCallbackPage" /\ last.navs = <<"/login">>


(***************************************************************************)
(* The profile mapper on its own: it is applied to any raw record a select *)
(* on 'users' can hand it.  Each name field is absent, the empty string    *)
(* (handleOAuthCallback writes last_name '' for a one-word full name) or a *)
(* name, in either naming.                                                 *)
(***************************************************************************)
FirstNames == {Undef, "", "Ana"}
LastNames == {Undef, "", "Lee"}

RawRecords ==
    {[DbRow("u1", "a@b.com", fn, ln, cfn, cln, role, phone, vendor) EXCEPT !.avatar = avatar] :
       fn \in FirstNames, ln \in LastNames, cfn \in FirstNames, cln \in LastNames,
       role \in {"VENDOR", "CUSTOMER"}, phone \in {Undef, "555"},
       avatar \in {Undef, "a.png"}, vendor \in {NoVal, Some(Vendor1)}}

MapperCall ==
    /\ \E dbUser \in RawRecords :
         last' = Called(dbUser,
                   StepRec("mapDatabaseUserToUser", "returned", Undef, <<>>, <<>>, <<>>,
                           Some(mapDatabaseUserToUser(dbUser)), FALSE))
    /\ UNCHANGED <<user, isLoading, phase, page, subscription, boot, pending>>

MapperSpec == Init /\ [][MapperCall]_vars

\* The mapper was applied to the raw record last.input and returned last.env.
Mapped == last.op = "mapDatabaseUserToUser"
Raw == Val(last.input)

\* A record that carries its names as first_name/last_name only, and the
\* same record carrying them as firstName/lastName only.
SnakeOnly(r) ==
    /\ r.first_name # Undef /\ r.last_name # Undef
    /\ r.firstName = Undef /\ r.lastName = Undef
CamelOf(r) ==
    [r EXCEPT !.firstName = r.first_name, !.lastName = r.last_name,
              !.first_name = Undef, !.last_name = Undef]

\* C21: the mapper returns the same canonical user for a record with its
\* names under first_name/last_name only and for the same record with them
\* under firstName/lastName only, whatever the other fields hold.
C21_NamingIrrelevant ==
    (Mapped /\ SnakeOnly(Raw)) => Val(last.env) = mapDatabaseUserToUser(CamelOf(Raw))

\* The name a record carries: the snake_case field when the record has it,
\* else the camelCase one.
Carried(snake, camel) == IF snake # Undef THEN snake ELSE camel

\* C22: the mapper returns (it never raises), maps every absent optional
\* field (avatar, phone, vendor, the name fields) to an absent field, builds
\* the display name as first name, one space, last name, and maps the
\* record u1 / a@b.com / Ana / Lee / VENDOR / ACTIVE to "Ana Lee", VENDOR.
C22_MapperFaithful ==
    Mapped =>
      LET u == Val(last.env)
      IN  /\ last.outcome = "returned"
          /\ Raw.avatar = Undef => u.avatar = Undef
          /\ Raw.phone = Undef => u.phone = Undef
          /\ Raw.vendor = NoVal => u.vendor = NoVal
          /\ (Raw.first_name = Undef /\ Raw.firstName = Undef) => u.firstName = Undef
          /\ (Raw.last_name = Undef /\ Raw.lastName = Undef) => u.lastName = Undef
          /\ u.name = <<Carried(Raw.first_name, Raw.firstName), " ",
                        Carried(Raw.last_name, Raw.lastName)>>
          /\ (Raw = DbRow("u1", "a@b.com", "Ana", "Lee", Undef, Undef, "VENDOR", Undef, NoVal))
               => (u.name = <<"Ana", " ", "Lee">> /\ u.role = "VENDOR")

\* A step of handleOAuthCallback that a backend response resumed.
OAuthCallbackStep == last'.op = ServiceOp("handleOAuthCallback", <<>>) /\ IsSome(last'.resp)
\* success({ user: the mapped row, session })
WithSession(row, session) ==
    handleSupabaseSuccess(Some([user |-> mapDatabaseUserToUser(row), session |-> session]))

\* C23: handleOAuthCallback with a session and no row for the session
\* user's id inserts one row with that id, role CUSTOMER and status ACTIVE
\* and returns it mapped together with the session; with an existing row it
\* inserts nothing and returns that row; with no session it queries 'users'
\* not at all and returns success with an absent payload.
C23_OAuthCallback ==
    [][OAuthCallbackStep =>
         \A t \in BagToSet(pending) :
           LET resp == Val(last'.resp)
               ended == last'.outcome = "returned" /\ last'.reqs = <<>>
           IN  /\ (t.at = "auth.getSession" /\ ~IsErr(resp) /\ ~IsSome(resp.data.session))
                    => (ended /\ Val(last'.env) = handleSupabaseSuccess(NoVal))
               /\ (t.at = "users.select" /\ ~IsErr(resp) /\ IsSome(resp.data))
                    => (ended /\ Val(last'.env) = WithSession(Val(resp.data), Val(t.ctx.session)))
               /\ (t.at = "users.select" /\ ~IsErr(resp) /\ ~IsSome(resp.data))
                    => /\ last'.outcome = "pending"
                       /\ Len(last'.reqs) = 1
                       /\ last'.reqs[1].fn = "users.insert"
                       /\ last'.reqs[1].args.values.id = Val(t.ctx.session).user.id
                       /\ last'.reqs[1].args.values.role = "CUSTOMER"
                       /\ last'.reqs[1].args.values.status = "ACTIVE"
               /\ (t.at = "users.insert" /\ ~IsErr(resp))
                    => /\ ended
                       /\ Val(last'.env) = WithSession(Val(resp.data), Val(t.ctx.session))
                       /\ Val(resp.data) = InsertedRow(t.ctx.values)
                       /\ Val(Val(last'.env).data).user.id = Val(t.ctx.session).user.id
                       /\ Val(Val(last'.env).data).user.role = "CUSTOMER"
                       /\ Val(Val(last'.env).data).user.status = "ACTIVE"]_vars

\* handleOAuthCallback returned the row it had just inserted for a Google
\* session whose user had none.
C23_Witness ==
    /\ ServiceEnded
    /\ last.op = ServiceOp("handleOAuthCallback", <<>>) /\ last.outcome = "returned"
    /\ Env.success /\ IsSome(Env.data)
    /\ Val(Env.data).user.role = "CUSTOMER"
    /\ Val(Env.data).user.firstName = "Ana"
    /\ "user_metadata" \in DOMAIN Val(Env.data).session.user

\* C24: every step that ends a push-event callback sets the loading flag
\* false, whatever the event and whatever its user fetch answered, also
\* while a user-initiated operation or the bootstrap is still pending.
C24_PushEndsLoading ==
    [][ (last'.op \in Events /\ last'.outcome = "returned") => isLoading' = FALSE ]_vars

\* A callback whose user fetch failed ended, with the loading flag false,
\* while the bootstrap was still awaiting the backend.
C24_Witness ==
    /\ last.op \in PushFetch /\ last.outcome = "returned"
    /\ IsSome(last.env) /\ ~Env.success
    /\ boot.pc \in BootAwaiting
    /\ isLoading = FALSE

\* C25: the step that ends a SIGNED_IN or TOKEN_REFRESHED callback whose
\* user fetch returned a failure envelope or an absent user raises nothing,
\* shows no notification and leaves the local user exactly as it was.
C25_PushFailureSwallowed ==
    [][ (/\ last'.op \in PushFetch /\ IsSome(last'.env)
         /\ ~(Val(last'.env).success /\ IsSome(Val(last'.env).data)))
          => /\ last'.outcome = "returned"
             /\ last'.error = Undef
             /\ last'.toasts = <<>>
             /\ last'.navs = <<>>
             /\ user' = user ]_vars

\* A TOKEN_REFRESHED callback's fetch failed and the installed user stayed.
C25_Witness ==
    /\ last.op = "TOKEN_REFRESHED" /\ last.outcome = "returned"
    /\ IsSome(last.env) /\ ~Env.success
    /\ IsSome(user)
    /\ last.toasts = <<>>

\* The operations and callbacks that set the loading flag when they exit.
LoadingWork ==
    {"login", "loginWithGoogle", "register", "handleSignup", "logout",
     "updateProfile", "resetPassword", "SIGNED_IN", "TOKEN_REFRESHED"}
\* No asynchronous work of the mounted bridge is pending: the bootstrap is
\* done and no callback or operation that sets the flag is suspended.
BridgeIdle ==
    /\ phase = "mounted"
    /\ boot.pc = "done"
    /\ \A t \in BagToSet(pending) : t.op \notin LoadingWork

\* C26: whenever the bootstrap has finished, no push-event callback is
\* awaiting its fetch and no login, loginWithGoogle, register, handleSignup,
\* logout, updateProfile or resetPassword call is between its start and its
\* exit, the loading flag is false.
C26_IdleNotLoading == BridgeIdle => isLoading = FALSE

\* A resetPassword that raised left the bridge idle and not loading.
C26_Witness ==
    /\ BridgeIdle
    /\ pending = EmptyBag
    /\ last.op = "resetPassword" /\ last.outcome = "raised"
    /\ isLoading = FALSE

\* The operations and callbacks whose continuation can install a user.
Installers ==
    {"login", "register", "handleSignup", "refreshToken", "updateProfile",
     "SIGNED_IN", "TOKEN_REFRESHED"}
\* Whatever could install a user was already in flight when a sign-out was
\* applied: nothing that installs was started since.
OnlyStaleInFlight ==
    /\ boot.pc # "idle"
    /\ boot.pc # "done" => boot.stale
    /\ \A t \in BagToSet(pending) : t.op \in Installers => t.stale

\* C27 as stated: once the user was cleared by a sign-out and nothing that
\* installs is started afterwards, the user stays absent; no fetch or update
\* that was in flight at the sign-out installs a user.
C27_StaysSignedOut ==
    [][ (user = NoVal /\ OnlyStaleInFlight) => user' = NoVal ]_vars

\* C27: the user is installed only by the continuation of a backend call;
\* a bootstrap, push-event fetch, updateProfile, refreshToken, login,
\* register or handleSignup that was in flight when a sign-out was applied
\* installs the user it is answered with all the same (last writer wins);
\* and with nothing in flight the user stays absent until something is
\* started.
C27_LastWriterAfterSignOut ==
    [][ /\ (user = NoVal /\ user' # NoVal)
             => /\ last'.op \in Installers \cup {"getInitialSession"}
                /\ last'.outcome = "returned"
                /\ IsSome(last'.resp) /\ IsSome(last'.env)
                /\ user' = CASE last'.op \in {"register", "handleSignup"} ->
                                  Val(Val(last'.env).data).user
                             [] last'.op = "login" ->
                                  Some(Val(Val(last'.env).data).user)
                             [] OTHER -> Val(last'.env).data
        /\ (/\ last'.stale /\ last'.outcome = "returned"
            /\ last'.op \in PushFetch \cup {"getInitialSession", "updateProfile", "refreshToken"}
            /\ IsSome(last'.env)
            /\ Val(last'.env).success /\ IsSome(Val(last'.env).data))
             => user' = Val(last'.env).data
        /\ (/\ last'.stale /\ last'.outcome = "returned" /\ last'.op = "login"
            /\ IsSome(last'.env)
            /\ Val(last'.env).success /\ IsSome(Val(last'.env).data))
             => user' = Some(Val(Val(last'.env).data).user)
        /\ (/\ last'.stale /\ last'.outcome = "returned"
            /\ last'.op \in {"register", "handleSignup"}
            /\ IsSome(last'.env)
            /\ Val(last'.env).success /\ IsSome(Val(last'.env).data)
            /\ "session" \in DOMAIN Val(Val(last'.env).data)
            /\ IsSome(Val(Val(last'.env).data).session))
             => user' = Val(Val(last'.env).data).user
        /\ (user = NoVal /\ boot.pc = "done" /\ pending = EmptyBag)
             => user' = NoVal ]_vars

\* A push-event fetch that was in flight when a sign-out cleared the user
\* installed its user afterwards.
C27_Witness ==
    /\ last.op \in PushFetch /\ last.outcome = "returned"
    /\ last.stale
    /\ IsSome(user)
    /\ user = Env.data

\* The latest step ended login or register with a user in its result, and
\* the role of that user.
NavigatedByRole ==
    /\ last.op \in {"login", "register"} /\ last.outcome = "returned"
    /\ IsSome(last.env) /\ Env.success /\ IsSome(Env.data)
    /\ last.op = "register" => IsSome(Val(Env.data).session)
ReturnedRole ==
    IF last.op = "login" THEN Val(Env.data).user.role ELSE RoleOf(Val(Env.data).user)

ProfileColumns == {"first_name", "last_name", "phone", "avatar"}

\* C29: the one request an updateProfile call sends is an update of
\* 'users' that writes the columns first_name, last_name, phone and avatar
\* only, with the values of the updates argument, on the row whose id is
\* the installed user's id, also when the argument carries role, status,
\* email or id; its continuation sends no further request.
C29_UpdateFrame ==
    [][ /\ (last'.op = "updateProfile" /\ last'.outcome = "pending" /\ IsSome(last'.input))
             => LET updates == Val(last'.input).updates
                IN  /\ Len(last'.reqs) = 1
                    /\ last'.reqs[1].fn = "users.update"
                    /\ DOMAIN last'.reqs[1].args.set = ProfileColumns
                    /\ last'.reqs[1].args.set =
                         [first_name |-> updates.firstName, last_name |-> updates.lastName,
                          phone |-> updates.phone, avatar |-> updates.avatar]
                    /\ last'.reqs[1].args.eq = [id |-> Val(user).id]
        /\ (last'.op = "updateProfile" /\ IsSome(last'.resp)) => last'.reqs = <<>> ]_vars

\* An updateProfile called with role, status, email and another id in its
\* argument sent its request for the installed user's row.
C29_Witness ==
    /\ last.op = "updateProfile" /\ last.outcome = "pending"
    /\ IsSome(last.input)
    /\ Val(last.input).updates.role = "ADMIN"
    /\ Val(last.input).updates.id = "u2"
    /\ IsSome(user) /\ Val(user).id = "u1"
    /\ last.reqs[1].args.eq.id = "u1"

\* The latest step (of the action) is the call step of op, and the
\* continuation of op's sign-up, resumed from task t.
SignUpCalled(op) == last'.op = op /\ IsSome(last'.input) /\ last'.outcome = "pending"
SignUpAnswered(op) ==
    /\ last'.op = op /\ IsSome(last'.resp)
    /\ \E t \in BagToSet(pending) :
         t.op = op /\ t.at = "auth.signUp" /\ pending' = pending (-) SetToBag({t})
\* What the continuation of a sign-up does, by the backend's answer: the
\* local user afterwards, the navigation, the raised error, the toast.
SignUpEffect ==
    LET resp == Val(last'.resp)
    IN  /\ isLoading' = FALSE
        /\ last'.reqs = <<>>
        /\ IF IsErr(resp)
           THEN /\ last'.outcome = "raised"
                /\ last'.error = Val(resp.error).message
                /\ last'.toasts = <<Toast("error", Val(resp.error).message)>>
                /\ last'.navs = <<>>
                /\ user' = user
           ELSE IF IsSome(resp.data.session)
           THEN /\ last'.outcome = "returned" /\ last'.error = Undef
                /\ last'.toasts = <<Toast("success", "Registration successful")>>
                /\ last'.navs = <<Surface(RoleOf(resp.data.user))>>
                /\ user' = resp.data.user
           ELSE /\ last'.outcome = "returned" /\ last'.error = Undef
                /\ last'.toasts = <<Toast("success",
                      "Registration successful! Please check your email to confirm your account.")>>
                /\ last'.navs = <<"/login">>
                /\ user' = user

\* C30: handleSignup('email', email, password, userData) with the three
\* arguments present sends the request register(userData) sends and its
\* continuation has register's effect for every backend answer (local user,
\* navigation, raised error); with one of the three missing it raises
\* without a backend request, leaves the local user and the pending work as
\* they were and leaves the loading flag false.
C30_SignupAsRegister ==
    [][ /\ SignUpCalled("register")
             => last'.reqs = <<SignUpReq(Val(last'.input).data)>>
        /\ (SignUpCalled("handleSignup") /\ Val(last'.input).provider = "email")
             => last'.reqs = <<SignUpReq(Val(Val(last'.input).userData))>>
        /\ SignUpAnswered("register") => SignUpEffect
        /\ SignUpAnswered("handleSignup") => SignUpEffect
        /\ (/\ last'.op = "handleSignup" /\ IsSome(last'.input)
            /\ Val(last'.input).provider = "email"
            /\ \/ ~Truthy(Val(last'.input).email)
               \/ ~Truthy(Val(last'.input).password)
               \/ ~IsSome(Val(last'.input).userData))
             => /\ last'.outcome = "raised"
                /\ last'.error = "Email, password, and user data are required for email signup"
                /\ last'.reqs = <<>>
                /\ pending' = pending
                /\ user' = user
                /\ isLoading' = FALSE ]_vars

\* handleSignup by email installed the signed-up user and navigated as
\* register does.
C30_Witness ==
    /\ last.op = "handleSignup" /\ last.outcome = "returned"
    /\ IsSome(last.resp) /\ ~IsErr(Resp)
    /\ "session" \in DOMAIN Resp.data /\ IsSome(Resp.data.session)
    /\ user = Resp.data.user
    /\ last.navs = <<"/customer">>
    /\ isLoading = FALSE

====
